---- MODULE Spec2Model ----
(***************************************************************************)
(* The predictive-maintenance dashboard.                                   *)
(*                                                                         *)
(* Browser: the asset table (AssetTable) with its expanded row            *)
(* (AssetDetail) and the trend-analysis engine behind it, which takes the  *)
(* readings fetched for one asset (newest first) and the time-range        *)
(* selector, and derives the half-to-half statistics, the chunked          *)
(* ("time segment") statistics, the chart series and the exported report.  *)
(*                                                                         *)
(* Server: the SQLite tables and the route handlers POST /api/upload,      *)
(* POST /api/train, POST /api/predict and GET /api/assets/[id].            *)
(*                                                                         *)
(* Specifications.                                                         *)
(*   Spec          the AssetDetail component on one loaded query result    *)
(*   SpecDashboard the expanded row over a stored history: expand,         *)
(*                 collapse, time-range buttons, fetch, render, export     *)
(*   SpecTable     the state of AssetTable: expand, collapse, sort,        *)
(*                 time-range buttons, fetch                               *)
(*   SpecApi       the upload, train and predict endpoints on the tables   *)
(*   SpecStore     uploads, predictions and deleteAsset calls, one after   *)
(*                 another                                                 *)
(*   SpecList      GET /api/assets over three stored assets                *)
(*   SpecSort      the sort state of AssetTable and the list it shows      *)
(*   SpecConcurrent  uploads handled at the same time, one step per        *)
(*                 database call                                           *)
(*                                                                         *)
(* Numbers.  Sensor values are integers here.  A string produced by        *)
(* Number.prototype.toFixed(2) is a record [k, neg, mag]: k = "fin" with   *)
(* sign neg and magnitude mag in hundredths ("-0.00" is neg with mag 0),   *)
(* k = "inf" ("Infinity" / "-Infinity"), k = "nan" ("NaN"); the literal    *)
(* "N/A" is k = "N/A".  Rounding is done on the exact quotient (binary     *)
(* floating-point representation error is not modelled).  A probability    *)
(* is an integer number of ten-thousandths.                                *)
(*                                                                         *)
(* Time.  A valid ISO 8601 timestamp is the integer number of its minute;  *)
(* all valid timestamps have one format, so that their order as text (the  *)
(* order SQLite sorts them in) is their order in time.                     *)
(***************************************************************************)
EXTENDS Integers, Sequences, FiniteSets, TLC

VARIABLES
    \* --- browser: useAsset query result held by AssetDetail
    readings,     \* data.readings: the fetched readings, newest first
    prediction,   \* data.prediction (NoPrediction when null or undefined)
    asset,        \* data.asset
    \* --- browser: AssetTable state (useState)
    expandedAssetId,  \* the expanded row, Null when none
    timeRange,        \* the selector, in hours
    sortField,
    sortDirection,
    isLoading,    \* useAsset(...).isLoading of the expanded row
    \* --- browser: output
    clock,        \* wall-clock time, read by new Date()
    view,         \* what the last render of AssetDetail put on screen
    report,       \* the last exported report: [filename, lines]
    prevReport,   \* the report exported before that one (history)
    \* --- server: the tables of the database, each a sequence of rows
    uploadedFiles,
    assets,
    sensorReadings,
    predictions,
    dataQualityIssues,
    \* --- server: the last HTTP response, and the files POST /api/train
    \* answered with success for (history)
    response,
    trainedFiles,
    \* --- server: the POST /api/upload requests being handled, each with the
    \* point its handler has reached and the handler's locals
    inFlight

queryVars == <<readings, prediction, asset>>

tableVars == <<expandedAssetId, timeRange, sortField, sortDirection, isLoading>>

outputVars == <<clock, view, report, prevReport>>

dbVars == <<uploadedFiles, assets, sensorReadings, predictions, dataQualityIssues>>

serverVars == <<dbVars, response, trainedFiles, inFlight>>

vars == <<queryVars, tableVars, outputVars, serverVars>>

-----------------------------------------------------------------------------
(* Bounds of the model *)

MaxShort == 2          \* reading counts 0 .. MaxShort
MaxQuarters == 4       \* reading counts k * 15 + d, k in 1 .. MaxQuarters
MaxOver == 1           \* d in 0 .. MaxOver readings past a chunk boundary
MaxOtherSelector == 2  \* selector values 0 .. MaxOtherSelector besides the five buttons
MaxClock == 1          \* wall-clock instants 0 .. MaxClock
TicksPerDay == 1       \* clock instants per calendar day
LongHistory == 241     \* stored readings of the first asset of the dashboard
ShortHistory == 61     \* stored readings of its second asset
MaxDataRows == 2       \* data lines of an uploaded CSV: 0 .. MaxDataRows
MaxUploads == 2        \* accepted uploads
MaxStoredRows == 2     \* data lines of all accepted uploads together
MaxPage == 3           \* page parameters 0 .. MaxPage of GET /api/assets
MaxLimit == 2          \* limit parameters 1 .. MaxLimit of GET /api/assets
MaxConcurrent == 2     \* upload requests handled at the same time
MaxPredictions == 2    \* rows of the predictions table

-----------------------------------------------------------------------------
(* Arithmetic and array helpers (JavaScript built-ins) *)

Abs(x) == IF x < 0 THEN -x ELSE x

\* const x = v; F(x): the local x is computed once
Local(v, F(_)) == CHOOSE y \in {F(x) : x \in {v}} : TRUE

\* Math.min(a, b)
MathMin(a, b) == IF a < b THEN a ELSE b

\* Math.max(a, b)
MathMax(a, b) == IF a > b THEN a ELSE b

\* Math.floor(a / b) for a >= 0, b > 0
MathFloorDiv(a, b) == a \div b

\* Math.ceil(a / b) for a >= 0, b > 0
MathCeilDiv(a, b) == (a + b - 1) \div b

\* Array.prototype.slice(start, end): 0-based, end exclusive, clamped to the length
Slice(arr, start, end) ==
    LET e == MathMin(end, Len(arr))
    IN  IF start >= e THEN <<>> ELSE SubSeq(arr, start + 1, e)

\* A reversed copy of arr
Reversed(arr) == [k \in 1..Len(arr) |-> arr[Len(arr) + 1 - k]]

\* Array.prototype.reverse(): reverses the array in place and returns it.
\* arr is the array object afterwards, ret the returned reference (the same array).
ArrayReverseCopy(arr) == [arr |-> arr, ret |-> Reversed(arr)]

ArrayReverse(arr) == [arr |-> Reversed(arr), ret |-> Reversed(arr)]

RECURSIVE SumRange(_, _, _)
\* values.reduce((a, b) => a + b, 0) over values[lo..hi]
SumRange(values, lo, hi) ==
    IF lo > hi THEN 0
    ELSE IF lo = hi THEN values[lo]
    ELSE LET mid == (lo + hi) \div 2
         IN  SumRange(values, lo, mid) + SumRange(values, mid + 1, hi)

Sum(values) == SumRange(values, 1, Len(values))

RECURSIVE MaxRange(_, _, _)
MaxRange(values, lo, hi) ==
    IF lo = hi THEN values[lo]
    ELSE LET mid == (lo + hi) \div 2
         IN  MathMax(MaxRange(values, lo, mid), MaxRange(values, mid + 1, hi))

\* Math.max(...values), values non-empty
MaxOf(values) == MaxRange(values, 1, Len(values))

RECURSIVE MinRange(_, _, _)
MinRange(values, lo, hi) ==
    IF lo = hi THEN values[lo]
    ELSE LET mid == (lo + hi) \div 2
         IN  MathMin(MinRange(values, lo, mid), MinRange(values, mid + 1, hi))

\* Math.min(...values), values non-empty
MinOf(values) == MinRange(values, 1, Len(values))

-----------------------------------------------------------------------------
(* Number formatting *)

Fin(neg, mag) == [k |-> "fin", neg |-> neg, mag |-> mag]
Inf(neg) == [k |-> "inf", neg |-> neg, mag |-> 0]
NaNStr == [k |-> "nan", neg |-> FALSE, mag |-> 0]
NA == [k |-> "N/A", neg |-> FALSE, mag |-> 0]

\* The literal "0.00"
ZeroStr == Fin(FALSE, 0)

\* (num / den).toFixed(2) for den # 0: two decimals, ties away from zero,
\* the sign kept when a negative value rounds to zero
ToFixed2(num, den) ==
    Fin((num < 0 /\ den > 0) \/ (num > 0 /\ den < 0),
        (200 * Abs(num) + Abs(den)) \div (2 * Abs(den)))

\* (x / 0).toFixed(2): x / 0 is NaN for x = 0, else an infinity signed by x and the zero
DivByZeroStr(x, zeroNeg) ==
    IF x = 0 THEN NaNStr ELSE Inf((x < 0) # zeroNeg)

\* parseFloat(s) of a finite toFixed string, in hundredths
ParseFloat(s) == IF s.neg THEN -s.mag ELSE s.mag

-----------------------------------------------------------------------------
(* calculateChunkedMetrics *)

ChunkConfigWithout24(tr) ==
    CASE tr = 1  -> [size |-> 15,  label |-> "15min"]
      [] tr = 4  -> [size |-> 60,  label |-> "1hr"]
      [] tr = 8  -> [size |-> 60,  label |-> "1hr"]
      [] tr = 12 -> [size |-> 120, label |-> "2hr"]
      [] OTHER   -> [size |-> 60,  label |-> "1hr"]

\* chunkSizes[timeRange] || { size: 60, label: "1hr" }
ChunkConfig(tr) ==
    CASE tr = 1  -> [size |-> 15,  label |-> "15min"]
      [] tr = 4  -> [size |-> 60,  label |-> "1hr"]
      [] tr = 8  -> [size |-> 60,  label |-> "1hr"]
      [] tr = 12 -> [size |-> 120, label |-> "2hr"]
      [] tr = 24 -> [size |-> 180, label |-> "3hr"]
      [] OTHER   -> [size |-> 60,  label |-> "1hr"]

NumChunksFloor(n, chunkSize) == MathFloorDiv(n, chunkSize)

\* numChunks = Math.ceil(readings.length / chunkSize)
NumChunks(n, chunkSize) == MathCeilDiv(n, chunkSize)

\* The period label of chunk i.  A label is a record; it renders as
\*   "Last"    : `Last ${unit}`
\*   "minsAgo" : `${a}-${b} mins ago`
\*   "hrAgo"   : `${b}hr ago`
\*   "hrsAgo"  : `${a}-${b}hrs ago`
LastLabel(unit) == [kind |-> "Last", a |-> 0, b |-> 0, unit |-> unit]
MinsAgoLabel(a, b) == [kind |-> "minsAgo", a |-> a, b |-> b, unit |-> ""]
HrAgoLabel(b) == [kind |-> "hrAgo", a |-> 0, b |-> b, unit |-> ""]
HrsAgoLabel(a, b) == [kind |-> "hrsAgo", a |-> a, b |-> b, unit |-> ""]

PeriodLabelByStart(tr, numChunks, i) ==
    LET chunkConfig == ChunkConfig(tr)
        chunkSize == chunkConfig.size
        hoursAgoEnd == MathFloorDiv((numChunks - i - 1) * chunkSize, 60)
        hoursAgoStart == MathFloorDiv((numChunks - i) * chunkSize, 60)
    IN  IF hoursAgoStart = 0 THEN LastLabel(chunkConfig.label)
        ELSE IF tr = 1
             THEN MinsAgoLabel((numChunks - i) * 15, (numChunks - i - 1) * 15)
        ELSE IF hoursAgoStart = hoursAgoEnd THEN HrAgoLabel(hoursAgoEnd)
        ELSE HrsAgoLabel(hoursAgoStart, hoursAgoEnd)

PeriodLabelFromNow(tr, numChunks, i) ==
    LET chunkConfig == ChunkConfig(tr)
        chunkSize == chunkConfig.size
        hoursAgoEnd == MathFloorDiv((numChunks - i - 1) * chunkSize, 60) + clock
        hoursAgoStart == MathFloorDiv((numChunks - i) * chunkSize, 60) + clock
    IN  IF hoursAgoEnd = 0 THEN LastLabel(chunkConfig.label)
        ELSE IF tr = 1
             THEN MinsAgoLabel((numChunks - i) * 15, (numChunks - i - 1) * 15)
        ELSE IF hoursAgoStart = hoursAgoEnd THEN HrAgoLabel(hoursAgoEnd)
        ELSE HrsAgoLabel(hoursAgoStart, hoursAgoEnd)

PeriodLabel(tr, numChunks, i) ==
    LET chunkConfig == ChunkConfig(tr)
        chunkSize == chunkConfig.size
        hoursAgoEnd == MathFloorDiv((numChunks - i - 1) * chunkSize, 60)
        hoursAgoStart == MathFloorDiv((numChunks - i) * chunkSize, 60)
    IN  IF hoursAgoEnd = 0 THEN LastLabel(chunkConfig.label)
        ELSE IF tr = 1
             THEN MinsAgoLabel((numChunks - i) * 15, (numChunks - i - 1) * 15)
        ELSE IF hoursAgoStart = hoursAgoEnd THEN HrAgoLabel(hoursAgoEnd)
        ELSE HrsAgoLabel(hoursAgoStart, hoursAgoEnd)

\* (values.reduce((a, b) => a + b, 0) / values.length).toFixed(2), values non-empty
MeanStr(values) == ToFixed2(Sum(values), Len(values))

ChunkRoCFromSecond(values) ==
    IF Len(values) > 1
    THEN LET first == values[2]
             last == values[Len(values)]
         IN  IF first = 0 THEN DivByZeroStr(last - first, FALSE)
             ELSE ToFixed2((last - first) * 100, first)
    ELSE ZeroStr

\* values.length > 1
\*   ? (((values[values.length - 1] - values[0]) / values[0]) * 100).toFixed(2) : "0.00"
ChunkRoC(values) ==
    IF Len(values) > 1
    THEN LET first == values[1]
             last == values[Len(values)]
         IN  IF first = 0 THEN DivByZeroStr(last - first, FALSE)
             ELSE ToFixed2((last - first) * 100, first)
    ELSE ZeroStr

TempValues(rs) == [k \in 1..Len(rs) |-> rs[k].tempF]
PressureValues(rs) == [k \in 1..Len(rs) |-> rs[k].pressurePSI]
VibrationValues(rs) == [k \in 1..Len(rs) |-> rs[k].vibrationMM]

ChunkStart(i, chunkSize) == i * chunkSize

\* end = Math.min(start + chunkSize, readings.length)
ChunkEnd(i, chunkSize, n) == MathMin(ChunkStart(i, chunkSize) + chunkSize, n)

\* One iteration of the loop: the object pushed for chunk i.  start and end are
\* the iteration's locals (the slice bounds) and count is chunkReadings.length,
\* kept with the chunk for reference.
ChunkAt(rs, tr, numChunks, i) ==
    LET chunkSize == ChunkConfig(tr).size
        start == ChunkStart(i, chunkSize)
        end == ChunkEnd(i, chunkSize, Len(rs))
    IN  Local(Slice(rs, start, end), LAMBDA chunkReadings :
        Local(TempValues(chunkReadings), LAMBDA tempValues :
        Local(PressureValues(chunkReadings), LAMBDA pressureValues :
        Local(VibrationValues(chunkReadings), LAMBDA vibrationValues :
          [chunkIndex |-> i,
           label |-> PeriodLabel(tr, numChunks, i),
           timeLabel |-> ChunkConfig(tr).label,
           tempMean |-> MeanStr(tempValues),
           pressureMean |-> MeanStr(pressureValues),
           vibrationMean |-> MeanStr(vibrationValues),
           tempRoC |-> ChunkRoC(tempValues),
           pressureRoC |-> ChunkRoC(pressureValues),
           vibrationRoC |-> ChunkRoC(vibrationValues),
           start |-> start,
           end |-> end,
           count |-> Len(chunkReadings)]))))

\* The chunks in generation order (oldest first), before the final reverse
GeneratedChunks(rs, tr) ==
    LET chunkSize == ChunkConfig(tr).size
        numChunks == NumChunks(Len(rs), chunkSize)
        indices == [k \in 1..numChunks |-> k - 1]
        \* if (chunkReadings.length === 0) continue;
        NonEmpty(i) ==
            Len(Slice(rs, ChunkStart(i, chunkSize), ChunkEnd(i, chunkSize, Len(rs)))) # 0
        pushed == SelectSeq(indices, NonEmpty)
    IN  [k \in 1..Len(pushed) |-> ChunkAt(rs, tr, numChunks, pushed[k])]

calculateChunkedMetricsUnreversed(rs, tr) ==
    IF Len(rs) = 0 THEN <<>> ELSE GeneratedChunks(rs, tr)

calculateChunkedMetrics(rs, tr) ==
    IF Len(rs) = 0 THEN <<>>
    ELSE ArrayReverse(GeneratedChunks(rs, tr)).ret

-----------------------------------------------------------------------------
(* Half-to-half analysis *)

\* Number.prototype.toFixed(2) of an integer
IntStr(v) == Fin(v < 0, 100 * Abs(v))

\* calcMetrics (export) and calcHalfMetrics (screen): the same computation
calcMetrics(data) ==
    LET Avg(vs) == IF Len(vs) > 0 THEN MeanStr(vs) ELSE NA
        Mx(vs) == IF Len(vs) > 0 THEN IntStr(MaxOf(vs)) ELSE NA
        Mn(vs) == IF Len(vs) > 0 THEN IntStr(MinOf(vs)) ELSE NA
    IN  Local(TempValues(data), LAMBDA temps :
        Local(PressureValues(data), LAMBDA pressures :
        Local(VibrationValues(data), LAMBDA vibrations :
          [tempAvg |-> Avg(temps), tempMax |-> Mx(temps), tempMin |-> Mn(temps),
           pressureAvg |-> Avg(pressures), pressureMax |-> Mx(pressures),
           pressureMin |-> Mn(pressures),
           vibrationAvg |-> Avg(vibrations), vibrationMax |-> Mx(vibrations),
           vibrationMin |-> Mn(vibrations)])))

\* calcRoc(first, second):
\*   if (first === "N/A" || second === "N/A") return "N/A";
\*   return (((parseFloat(second) - parseFloat(first)) / parseFloat(first)) * 100).toFixed(2)
calcRoc(first, second) ==
    IF first = NA \/ second = NA THEN NA
    ELSE LET f == ParseFloat(first)
             s == ParseFloat(second)
         IN  IF f = 0 THEN DivByZeroStr(s - f, first.neg)
             ELSE ToFixed2((s - f) * 100, f)

MidpointCeil(chrono) == MathCeilDiv(Len(chrono), 2)

\* midpoint = Math.floor(chronologicalReadings.length / 2)
Midpoint(chrono) == MathFloorDiv(Len(chrono), 2)

FirstHalf(chrono) == Slice(chrono, 0, Midpoint(chrono))

\* chronologicalReadings.slice(midpoint)
SecondHalf(chrono) == Slice(chrono, Midpoint(chrono), Len(chrono))

MetricKeys ==
    {"tempAvg", "tempMax", "tempMin", "pressureAvg", "pressureMax", "pressureMin",
     "vibrationAvg", "vibrationMax", "vibrationMin"}

-----------------------------------------------------------------------------
(* On-screen rendering of AssetDetail *)

ReverseInPlace(rs) ==
    LET r == ArrayReverse(rs)
    IN  [fetched |-> r.arr, chrono |-> r.ret]

\* [...readings].reverse(): the spread copies the array and reverse() reverses
\* the copy in place.  fetched is the array data.readings afterwards, chrono the
\* value of chronologicalReadings.
SpreadReverse(rs) ==
    LET copy == rs
        r == ArrayReverse(copy)
    IN  [fetched |-> rs, chrono |-> r.ret]

\* chronologicalReadings = [...readings].reverse()
ChronologicalReadings(rs) == SpreadReverse(rs).chrono

calcHalfMetricsUnguarded(data) ==
    LET Avg(vs) == IF Len(vs) > 0 THEN MeanStr(vs) ELSE NaNStr
        Mx(vs) == IF Len(vs) > 0 THEN IntStr(MaxOf(vs)) ELSE Inf(TRUE)
        Mn(vs) == IF Len(vs) > 0 THEN IntStr(MinOf(vs)) ELSE Inf(FALSE)
    IN  Local(TempValues(data), LAMBDA temps :
        Local(PressureValues(data), LAMBDA pressures :
        Local(VibrationValues(data), LAMBDA vibrations :
          [tempAvg |-> Avg(temps), tempMax |-> Mx(temps), tempMin |-> Mn(temps),
           pressureAvg |-> Avg(pressures), pressureMax |-> Mx(pressures),
           pressureMin |-> Mn(pressures),
           vibrationAvg |-> Avg(vibrations), vibrationMax |-> Mx(vibrations),
           vibrationMin |-> Mn(vibrations)])))

\* calcHalfMetrics: the on-screen copy of calcMetrics
calcHalfMetrics(data) ==
    LET Avg(vs) == IF Len(vs) > 0 THEN MeanStr(vs) ELSE NA
        Mx(vs) == IF Len(vs) > 0 THEN IntStr(MaxOf(vs)) ELSE NA
        Mn(vs) == IF Len(vs) > 0 THEN IntStr(MinOf(vs)) ELSE NA
    IN  Local(TempValues(data), LAMBDA temps :
        Local(PressureValues(data), LAMBDA pressures :
        Local(VibrationValues(data), LAMBDA vibrations :
          [tempAvg |-> Avg(temps), tempMax |-> Mx(temps), tempMin |-> Mn(temps),
           pressureAvg |-> Avg(pressures), pressureMax |-> Mx(pressures),
           pressureMin |-> Mn(pressures),
           vibrationAvg |-> Avg(vibrations), vibrationMax |-> Mx(vibrations),
           vibrationMin |-> Mn(vibrations)])))

\* renderValue(first, second).roc: the on-screen copy of calcRoc
renderValueRoc(first, second) ==
    IF first = NA \/ second = NA THEN NA
    ELSE LET f == ParseFloat(first)
             s == ParseFloat(second)
         IN  IF f = 0 THEN DivByZeroStr(s - f, first.neg)
             ELSE ToFixed2((s - f) * 100, f)

\* midpoint = Math.floor(chronologicalReadings.length / 2), on-screen table
ScreenMidpoint(chrono) == MathFloorDiv(Len(chrono), 2)

\* The "Trend Analysis: First Half -> Second Half" table.  firstLength and
\* secondLength are the lengths of the locals firstHalf and secondHalf.
RenderHalfTable(chrono) ==
    LET midpoint == ScreenMidpoint(chrono)
    IN  Local(Slice(chrono, 0, midpoint), LAMBDA firstHalf :
        Local(Slice(chrono, midpoint, Len(chrono)), LAMBDA secondHalf :
        Local(calcHalfMetrics(firstHalf), LAMBDA firstMetrics :
        Local(calcHalfMetrics(secondHalf), LAMBDA secondMetrics :
          [firstLength |-> Len(firstHalf),
           secondLength |-> Len(secondHalf),
           firstMetrics |-> firstMetrics,
           secondMetrics |-> secondMetrics,
           roc |-> [m \in MetricKeys |->
                      renderValueRoc(firstMetrics[m], secondMetrics[m])]]))))

\* parseFloat of a toFixed string, as the number handed to a chart
ChartNumber(s) ==
    IF s.k = "fin" THEN [k |-> "num", v |-> ParseFloat(s)]
    ELSE [k |-> s.k, v |-> IF s.neg THEN -1 ELSE 1]

TempPoint(c) ==
    [period |-> c.label, avg |-> ChartNumber(c.tempMean), roc |-> ChartNumber(c.tempRoC)]
PressurePoint(c) ==
    [period |-> c.label, avg |-> ChartNumber(c.pressureMean),
     roc |-> ChartNumber(c.pressureRoC)]
VibrationPoint(c) ==
    [period |-> c.label, avg |-> ChartNumber(c.vibrationMean),
     roc |-> ChartNumber(c.vibrationRoC)]

\* The "Trend Analysis - Time Segments" section: nothing when there is no chunk,
\* else the statistics table (chunks.map) and then the three charts, the first
\* fed by chunks.reverse().map, the other two by chunks.map on the same array.
RenderSegments(chrono, tr) ==
    Local(calculateChunkedMetrics(chrono, tr), LAMBDA chunks :
    Local(ArrayReverse(chunks), LAMBDA rev :
      IF Len(chunks) = 0
      THEN [shown |-> FALSE, timeLabel |-> "", table |-> <<>>, tempChart |-> <<>>,
            pressureChart |-> <<>>, vibrationChart |-> <<>>]
      ELSE [shown |-> TRUE,
            timeLabel |-> chunks[1].timeLabel,
            table |-> chunks,
            tempChart |-> [k \in 1..Len(rev.ret) |-> TempPoint(rev.ret[k])],
            pressureChart |-> [k \in 1..Len(rev.arr) |-> PressurePoint(rev.arr[k])],
            vibrationChart |-> [k \in 1..Len(rev.arr) |-> VibrationPoint(rev.arr[k])]]))

NoView == [rendered |-> FALSE]

\* What a render of AssetDetail with loaded data shows.  chronological keeps the
\* length and the two ends (oldest, newest) of chronologicalReadings for reference.
RenderView(rs, tr) ==
    Local(ChronologicalReadings(rs), LAMBDA chrono :
      [rendered |-> TRUE,
       chronological |->
           [length |-> Len(chrono),
            ends |-> IF Len(chrono) = 0 THEN <<>>
                     ELSE <<chrono[1], chrono[Len(chrono)]>>],
       half |-> RenderHalfTable(chrono),
       segments |-> RenderSegments(chrono, tr)])

-----------------------------------------------------------------------------
(* handleExportDetailedReport *)

\* A report line: its first cell (tag) and the remaining cells
Line(tag, cells) == [tag |-> tag, cells |-> cells]
BlankLine == Line("", <<>>)

\* x || "N/A"
OrNA(x) == IF x = "" THEN "N/A" ELSE x

\* asset.name.replace(/\s+/g, "_"); a name is a sequence of words and " " runs
ReplaceSpaces(name) == [k \in 1..Len(name) |-> IF name[k] = " " THEN "_" ELSE name[k]]

\* new Date().toISOString().split("T")[0]
IsoDate(now) == now \div TicksPerDay

\* new Date().toLocaleString()
LocaleString(now) == now

\* (prediction.probability * 100).toFixed(1); probability in ten-thousandths,
\* the result in tenths of a percent
ProbabilityPercent(probability) == (probability + 5) \div 10

NoReport == [exported |-> FALSE, assetId |-> "", filename |-> <<>>, lines |-> <<>>,
             firstLength |-> 0, secondLength |-> 0]

PredictionInfoLines(pred) ==
    IF pred.present
    THEN << Line("Risk Level", <<pred.riskLevel>>),
            Line("Failure Probability", <<ProbabilityPercent(pred.probability)>>) >>
    ELSE <<>>

CurrentStatusLines(rs) ==
    IF Len(rs) > 0
    THEN << Line("CURRENT SENSOR STATUS", <<>>),
            Line("Temperature", <<rs[1].tempF>>),
            Line("Pressure", <<rs[1].pressurePSI>>),
            Line("Vibration", <<rs[1].vibrationMM>>),
            BlankLine >>
    ELSE <<>>

TrendLines(firstMetrics, secondMetrics) ==
    LET R(m) == calcRoc(firstMetrics[m], secondMetrics[m])
    IN  << Line("TREND ANALYSIS: FIRST HALF vs SECOND HALF", <<>>),
           Line("Metric", <<"Temperature Change %", "Pressure Change %",
                            "Vibration Change %">>),
           Line("Average", <<R("tempAvg"), R("pressureAvg"), R("vibrationAvg")>>),
           Line("Maximum", <<R("tempMax"), R("pressureMax"), R("vibrationMax")>>),
           Line("Minimum", <<R("tempMin"), R("pressureMin"), R("vibrationMin")>>),
           BlankLine >>

SegmentLine(chunk) ==
    Line("Period row", <<chunk.label, chunk.tempMean, chunk.tempRoC, chunk.pressureMean,
                         chunk.pressureRoC, chunk.vibrationMean, chunk.vibrationRoC>>)

SegmentLinesAlways(chunks) ==
    << Line("TIME SEGMENT TREND ANALYSIS", <<>>),
       Line("Period", <<"Temp Avg", "Temp RoC %", "Pressure Avg", "Pressure RoC %",
                        "Vibration Avg", "Vibration RoC %">>) >>
    \o [k \in 1..Len(chunks) |-> SegmentLine(chunks[k])]
    \o << BlankLine >>

\* if (chunks.length > 0) { ... }
SegmentLines(chunks) ==
    IF Len(chunks) > 0
    THEN << Line("TIME SEGMENT TREND ANALYSIS", <<>>),
            Line("Period", <<"Temp Avg", "Temp RoC %", "Pressure Avg", "Pressure RoC %",
                             "Vibration Avg", "Vibration RoC %">>) >>
         \o [k \in 1..Len(chunks) |-> SegmentLine(chunks[k])]
         \o << BlankLine >>
    ELSE <<>>

PredictionLines(pred) ==
    IF pred.present
    THEN << Line("ML PREDICTION", <<>>),
            Line("Failure Probability", <<ProbabilityPercent(pred.probability)>>),
            Line("Risk Level", <<pred.riskLevel>>) >>
         \o (IF pred.modelVersion # ""
             THEN << Line("Model Version", <<pred.modelVersion>>) >> ELSE <<>>)
    ELSE <<>>

\* The report header: title, generation time, time range, reading count
HeaderLines(a, rs, tr, now) ==
    << Line("Asset Detailed Report", <<a.name>>),
       Line("Generated", <<LocaleString(now)>>),
       Line("Time Range", <<tr>>),
       Line("Total Readings", <<Len(rs)>>),
       BlankLine >>

AssetInfoLines(a, pred) ==
    << Line("ASSET INFORMATION", <<>>),
       Line("Type", <<a.name>>),
       Line("Location", <<OrNA(a.location)>>),
       Line("Manufacturer", <<OrNA(a.manufacturer)>>),
       Line("Model", <<OrNA(a.model)>>) >>
    \o PredictionInfoLines(pred)
    \o << BlankLine >>

\* The file handed to the browser: its name and its lines (joined by "\n").
\* firstLength and secondLength are the lengths of the locals firstHalf, secondHalf,
\* and assetId is the id of the asset reported on; the three are kept for reference.
ExportDetailedReport(a, rs, pred, tr, now) ==
    Local(ChronologicalReadings(rs), LAMBDA chrono :
    Local(calculateChunkedMetrics(chrono, tr), LAMBDA chunks :
    Local(FirstHalf(chrono), LAMBDA firstHalf :
    Local(SecondHalf(chrono), LAMBDA secondHalf :
    Local(calcMetrics(firstHalf), LAMBDA firstMetrics :
    Local(calcMetrics(secondHalf), LAMBDA secondMetrics :
      [exported |-> TRUE,
       assetId |-> a.id,
       filename |-> <<ReplaceSpaces(a.name), tr, IsoDate(now)>>,
       lines |-> HeaderLines(a, rs, tr, now)
                 \o AssetInfoLines(a, pred)
                 \o CurrentStatusLines(rs)
                 \o TrendLines(firstMetrics, secondMetrics)
                 \o SegmentLines(chunks)
                 \o PredictionLines(pred),
       firstLength |-> Len(firstHalf),
       secondLength |-> Len(secondHalf)]))))))

-----------------------------------------------------------------------------
(* GET /api/assets/[id] and the useAsset hook *)

\* null / undefined of JavaScript where an asset id is expected
Null == "null"

\* .where(eq(table.assetId, assetId))
WhereAssetId(table, assetId) == SelectSeq(table, LAMBDA r : r.assetId = assetId)

\* .orderBy(desc(sensorReadings.timestamp)): the rows sorted by timestamp,
\* latest first (rows of equal timestamp in table order)
OrderByTimestampDesc(rows) ==
    Local(rows, LAMBDA rs :
    Local([j \in 1..Len(rs) |->
             Cardinality({i \in 1..Len(rs) :
                 \/ rs[i].timestamp > rs[j].timestamp
                 \/ (rs[i].timestamp = rs[j].timestamp /\ i < j)}) + 1],
          LAMBDA rank :
    Local([k \in 1..Len(rs) |-> CHOOSE j \in 1..Len(rs) : rank[j] = k],
          LAMBDA at : [k \in 1..Len(rs) |-> rs[at[k]]])))

NoLimit(rows, limit) == rows

\* .limit(limit)
Limit(rows, limit) == SubSeq(rows, 1, MathMin(limit, Len(rows)))

\* getAssetById(id): the asset row, or the empty sequence for null
getAssetById(table, id) ==
    LET found == SelectSeq(table, LAMBDA a : a.id = id)
    IN  IF Len(found) = 0 THEN <<>> ELSE <<found[1]>>

\* The rows .orderBy(desc(predictions.predictedAt)).limit(1) may return for an
\* asset: the rows with the latest predictedAt (any of them when several share
\* it), none when the asset has no prediction
LatestPredictions(table, assetId) ==
    LET mine == WhereAssetId(table, assetId)
    IN  {mine[k] : k \in {j \in 1..Len(mine) :
                            \A i \in 1..Len(mine) : mine[i].predictedAt <= mine[j].predictedAt}}

\* getAssetWithReadings(assetId, limit).readings
getAssetWithReadings(assetTable, readingTable, assetId, limit) ==
    Limit(OrderByTimestampDesc(WhereAssetId(readingTable, assetId)), limit)

\* readingsLimit as the route handler sees it: the hook sets the parameter only
\* when its readingsLimit is truthy, and the handler takes
\* parseInt(searchParams.get("readingsLimit") || "1000")
ReadingsLimitParam(readingsLimit) == IF readingsLimit # 0 THEN readingsLimit ELSE 1000

\* One element of data.readings of the response
ReadingJson(r) ==
    [timestamp |-> r.timestamp, tempF |-> r.tempF, pressurePSI |-> r.pressurePSI,
     vibrationMM |-> r.vibrationMM, failureFlag |-> r.failureFlag]

\* The body of a successful response.  latest is a sequence: the latest
\* prediction row, or empty when there is none (currentPrediction: null).
AssetResponseBody(assetRow, rows, latest) ==
    [status |-> "success",
     data |->
        [asset |-> [id |-> assetRow.id, name |-> assetRow.name, type |-> assetRow.type,
                    location |-> assetRow.location,
                    manufacturer |-> assetRow.manufacturer, model |-> assetRow.model],
         readings |-> [k \in 1..Len(rows) |-> ReadingJson(rows[k])],
         currentPrediction |->
            IF Len(latest) = 0 THEN <<>>
            ELSE <<[riskLevel |-> latest[1].riskLevel,
                    probability |-> latest[1].probability,
                    recommendation |-> latest[1].recommendation,
                    predictedAt |-> latest[1].predictedAt,
                    modelVersion |-> latest[1].modelVersion]>>,
         stats |-> [totalReadings |-> Len(rows)]]]

\* GET /api/assets/[id]?readingsLimit=...: [status, body]
GetAsset(assetTable, readingTable, assetId, readingsLimit, latest) ==
    LET found == getAssetById(assetTable, assetId)
    IN  IF Len(found) = 0
        THEN [status |-> 404, body |-> [status |-> "error", code |-> "ASSET_NOT_FOUND"]]
        ELSE [status |-> 200,
              body |-> AssetResponseBody(
                          found[1],
                          getAssetWithReadings(assetTable, readingTable, assetId,
                                               ReadingsLimitParam(readingsLimit)),
                          latest)]

\* data.prediction for the browser: null and undefined are both falsy
NoPrediction == [present |-> FALSE, riskLevel |-> "", probability |-> 0, modelVersion |-> ""]

\* obj[key] of a JavaScript object holding a prediction or null; undefined
\* (the object has no such key) when key is not a key of obj
PredictionProperty(obj, key) ==
    IF key \notin DOMAIN obj THEN NoPrediction
    ELSE IF Len(obj[key]) = 0 THEN NoPrediction
    ELSE [present |-> TRUE, riskLevel |-> obj[key][1].riskLevel,
          probability |-> obj[key][1].probability,
          modelVersion |-> obj[key][1].modelVersion]

\* The value the queryFn of useAsset returns for the body of an ok response
UseAssetData(body) ==
    [asset |-> body.data.asset,
     readings |-> body.data.readings,
     prediction |-> PredictionProperty(body.data, "prediction")]

-----------------------------------------------------------------------------
(* Inputs *)

\* The time-range buttons: [1, 4, 8, 12, 24].map((hours) => ...)
SupportedRanges == {1, 4, 8, 12, 24}

Selectors == SupportedRanges \cup (0..MaxOtherSelector)

\* Short reading counts: up to MaxShort, and at or just past the quarter hours
Lengths ==
    (0..MaxShort) \cup {k * 15 + d : k \in 1..MaxQuarters, d \in 0..MaxOver}

\* readingsLimit = timeRange * 60: the reading count of a full window
FullWindow(h) == h * 60

Profiles == {"ramp", "zero", "cold"}

\* The reading taken at minute t (0 = oldest) under a profile; every value is
\* within the ranges the upload validation accepts
ReadingAt(p, t) ==
    CASE p = "ramp" ->
           [timestamp |-> t, tempF |-> 60 + (t \div 4), pressurePSI |-> 50 + (t % 3),
            vibrationMM |-> t % 16, failureFlag |-> 0]
      [] p = "zero" ->
           [timestamp |-> t, tempF |-> 0, pressurePSI |-> 0, vibrationMM |-> 0,
            failureFlag |-> 0]
      [] OTHER ->
           [timestamp |-> t, tempF |-> IF t = 0 THEN -1 ELSE 0,
            pressurePSI |-> IF t = 0 THEN 0 ELSE 3, vibrationMM |-> 1,
            failureFlag |-> 0]

\* n readings as the API returns them: newest first
FetchedReadings(p, n) == [k \in 1..n |-> ReadingAt(p, n - k)]

\* The recommendation POST /api/predict stores with a risk level
Recommendation(riskLevel) ==
    CASE riskLevel = "green" -> "Continue normal operation. Asset operating within normal parameters."
      [] riskLevel = "yellow" -> "Schedule inspection within 7 days. Elevated risk detected."
      [] OTHER -> "Immediate attention required. High failure risk detected."

\* A row of the predictions table
PredictionRow(assetId, probability, riskLevel, at) ==
    [assetId |-> assetId, probability |-> probability, riskLevel |-> riskLevel,
     recommendation |-> Recommendation(riskLevel), modelVersion |-> "stub_v0.1",
     predictedAt |-> at]

\* The stored predictions of the asset a profile stands for
ProfilePrediction(p) ==
    CASE p = "ramp" -> << PredictionRow("PUMP-1", 8536, "red", 0) >>
      [] p = "zero" -> << >>
      [] OTHER -> << PredictionRow("PUMP-1", 1204, "green", 0) >>

\* The inputs of the component: every short reading count under every profile
\* and selector; and for each button one chunk (and a little over) and the
\* full window
Inputs ==
    {[n |-> n, p |-> p, tr |-> tr] : n \in Lengths, p \in Profiles, tr \in Selectors}
    \cup {[n |-> ChunkConfig(h).size + d, p |-> "ramp", tr |-> h] :
             h \in SupportedRanges, d \in 0..MaxOver}
    \cup {[n |-> FullWindow(h), p |-> "ramp", tr |-> h] : h \in SupportedRanges}

\* The asset rows the component is given
Assets ==
    {[id |-> "PUMP-1", name |-> <<"Pump", " ", "A">>, type |-> "pump",
      location |-> "Bay 1", manufacturer |-> "", model |-> ""]}

\* The stored history the dashboard browses: two assets as POST /api/upload
\* creates them, the first with LongHistory readings, one per minute, the
\* second with ShortHistory readings, and two predictions of the first asset
SeedAssets ==
    << [id |-> "PUMP-101", name |-> <<"Pump", " ", "101">>, type |-> "pump",
        location |-> "Unknown", manufacturer |-> "", model |-> ""],
       [id |-> "COMP-204", name |-> <<"Compressor", " ", "204">>, type |-> "compressor",
        location |-> "Unknown", manufacturer |-> "", model |-> ""] >>

\* A row of the sensor_readings table
ReadingRow(assetId, p, t) ==
    [assetId |-> assetId, timestamp |-> t, tempF |-> ReadingAt(p, t).tempF,
     pressurePSI |-> ReadingAt(p, t).pressurePSI,
     vibrationMM |-> ReadingAt(p, t).vibrationMM,
     failureFlag |-> ReadingAt(p, t).failureFlag]

\* The rows in insertion order: the second asset's, then the later half of
\* the first asset's history, then its earlier half (uploaded afterwards)
SeedReadings ==
    LET half == LongHistory \div 2
    IN  [k \in 1..ShortHistory |-> ReadingRow("COMP-204", "cold", k - 1)]
        \o [k \in 1..(LongHistory - half) |-> ReadingRow("PUMP-101", "ramp", half + k - 1)]
        \o [k \in 1..half |-> ReadingRow("PUMP-101", "ramp", k - 1)]

SeedPredictions ==
    << PredictionRow("PUMP-101", 4200, "yellow", 0),
       PredictionRow("PUMP-101", 8536, "red", 1) >>

-----------------------------------------------------------------------------
(* POST /api/upload: the CSV and its validation *)

\* A cell of the parsed CSV is a record [t, v]: a valid ISO 8601 datetime
\* ("iso", v = its minute), the decimal digits of an integer ("num"), any
\* other non-empty text ("text"), or the empty string ("blank"); reading an
\* array past its end, or at index -1, gives undefined
Iso(t) == [t |-> "iso", v |-> t]

Num(n) == [t |-> "num", v |-> n]

Text(s) == [t |-> "text", v |-> s]

Blank == [t |-> "blank", v |-> ""]

Undefined == [t |-> "undefined", v |-> "undefined"]

\* header.indexOf(name), counted from 1; 0 stands for -1
IndexOf(header, name) ==
    IF \E k \in 1..Len(header) : header[k] = name
    THEN CHOOSE k \in 1..Len(header) :
            /\ header[k] = name
            /\ \A j \in 1..(k - 1) : header[j] # name
    ELSE 0

\* row[index]
At(row, index) == IF index \in 1..Len(row) THEN row[index] ELSE Undefined

\* x || ""
OrEmpty(cell) == IF cell.t \in {"undefined", "blank"} THEN Blank ELSE cell

requiredColumns ==
    <<"timestamp", "asset_id", "tempF", "pressurePSI", "vibrationMM", "failure_flag">>

\* requiredColumns.filter((col) => !header.includes(col))
missingColumns(header) == SelectSeq(requiredColumns, LAMBDA col : IndexOf(header, col) = 0)

\* const rowData = { timestamp: row[colIndices.timestamp], ... }
RowData(header, row) ==
    [col \in {requiredColumns[k] : k \in 1..Len(requiredColumns)} |->
        At(row, IndexOf(header, col))]

\* z.coerce.number(): Number(x), "" giving 0, other text and undefined NaN
CoerceNumber(cell) ==
    CASE cell.t = "num" -> [nan |-> FALSE, v |-> cell.v]
      [] cell.t = "blank" -> [nan |-> FALSE, v |-> 0]
      [] OTHER -> [nan |-> TRUE, v |-> 0]

\* z.coerce.number().min(lo).max(hi)
NumberWithin(cell, lo, hi) ==
    LET n == CoerceNumber(cell) IN ~n.nan /\ lo <= n.v /\ n.v <= hi

\* CSVRowSchema, field by field: z.string().datetime(), z.string().min(1),
\* and the four coerced numbers with their ranges
FieldPasses(rowData, col) ==
    CASE col = "timestamp" -> rowData[col].t = "iso"
      [] col = "asset_id" -> rowData[col].t \in {"iso", "num", "text"}
      [] col = "tempF" -> NumberWithin(rowData[col], -50, 500)
      [] col = "pressurePSI" -> NumberWithin(rowData[col], 0, 10000)
      [] col = "vibrationMM" -> NumberWithin(rowData[col], 0, 100)
      [] OTHER -> NumberWithin(rowData[col], 0, 1)

\* CSVRowSchema.parse(rowData): the validated object, or a ZodError whose
\* issues are in the order of the schema's keys
CSVRowSchemaParse(rowData) ==
    LET issues == SelectSeq(requiredColumns, LAMBDA col : ~FieldPasses(rowData, col))
    IN  IF issues = <<>>
        THEN [success |-> TRUE,
              data |-> [asset_id |-> rowData["asset_id"].v,
                        timestamp |-> rowData["timestamp"].v,
                        tempF |-> CoerceNumber(rowData["tempF"]).v,
                        pressurePSI |-> CoerceNumber(rowData["pressurePSI"]).v,
                        vibrationMM |-> CoerceNumber(rowData["vibrationMM"]).v,
                        failure_flag |-> CoerceNumber(rowData["failure_flag"]).v]]
        ELSE [success |-> FALSE, issues |-> issues]

\* A row of the data_quality_issues table
IssueRow(fileId, header, row, fieldName) ==
    [fileId |-> fileId,
     assetId |-> OrEmpty(At(row, IndexOf(header, "asset_id"))),
     timestamp |-> OrEmpty(At(row, IndexOf(header, "timestamp"))),
     issueType |-> "invalid_format",
     field |-> fieldName,
     value |-> At(row, IndexOf(header, fieldName)),
     severity |-> "error"]

\* The loop body of the mutant below: an issue is recorded only when the
\* offending cell is there
ProcessRowSkippingMissing(fileId, header, row) ==
    LET parsed == CSVRowSchemaParse(RowData(header, row))
    IN  IF parsed.success
        THEN [outcome |-> "reading",
              reading |-> [assetId |-> parsed.data.asset_id,
                           timestamp |-> parsed.data.timestamp,
                           tempF |-> parsed.data.tempF,
                           pressurePSI |-> parsed.data.pressurePSI,
                           vibrationMM |-> parsed.data.vibrationMM,
                           failureFlag |-> parsed.data.failure_flag]]
        ELSE IF At(row, IndexOf(header, parsed.issues[1])).t = "undefined"
        THEN [outcome |-> "none"]
        ELSE [outcome |-> "issue",
              issue |-> IssueRow(fileId, header, row, parsed.issues[1])]

\* The body of the loop over the data rows: the row becomes a valid reading,
\* or the first validation issue of the row is recorded
ProcessRow(fileId, header, row) ==
    LET parsed == CSVRowSchemaParse(RowData(header, row))
    IN  IF parsed.success
        THEN [outcome |-> "reading",
              reading |-> [assetId |-> parsed.data.asset_id,
                           timestamp |-> parsed.data.timestamp,
                           tempF |-> parsed.data.tempF,
                           pressurePSI |-> parsed.data.pressurePSI,
                           vibrationMM |-> parsed.data.vibrationMM,
                           failureFlag |-> parsed.data.failure_flag]]
        ELSE [outcome |-> "issue",
              issue |-> IssueRow(fileId, header, row, parsed.issues[1])]

\* The elements of a sequence in the order of their first occurrence
\* (the iteration order of a Set)
RECURSIVE InsertionOrder(_)
InsertionOrder(s) ==
    IF s = <<>> THEN <<>>
    ELSE LET front == InsertionOrder(SubSeq(s, 1, Len(s) - 1))
             last == s[Len(s)]
         IN  IF \E k \in 1..Len(front) : front[k] = last THEN front
             ELSE Append(front, last)

\* What the model's asset ids begin with, in upper case, and their digits
\* (assetId.toUpperCase().startsWith(...), assetId.replace(/[^0-9]/g, ""))
IdPrefix(assetId) ==
    CASE assetId = "PUMP-101" -> "PUMP"
      [] assetId = "COMP-204" -> "COMP"
      [] assetId = "MOTOR-7" -> "MOTOR"
      [] OTHER -> ""

IdDigits(assetId) ==
    CASE assetId = "PUMP-101" -> "101"
      [] assetId = "COMP-204" -> "204"
      [] assetId = "MOTOR-7" -> "7"
      [] OTHER -> ""

determineAssetType(assetId) ==
    CASE IdPrefix(assetId) = "PUMP" -> "pump"
      [] IdPrefix(assetId) = "COMP" -> "compressor"
      [] IdPrefix(assetId) = "MOTOR" -> "motor"
      [] OTHER -> "other"

createAssetName(assetId) ==
    LET typeMap == [pump |-> "Pump", compressor |-> "Compressor", motor |-> "Motor",
                    other |-> "Equipment"]
    IN  <<typeMap[determineAssetType(assetId)], " ", IdDigits(assetId)>>

\* The ids createAsset is called for, of the mutant below: every id of the file
AssetsToCreateUnchecked(assetTable, uniqueAssets) == uniqueAssets

\* The ids createAsset is called for: for (const assetId of uniqueAssets)
\* { const existingAsset = await getAssetById(assetId); if (!existingAsset) ... }
AssetsToCreate(assetTable, uniqueAssets) ==
    SelectSeq(uniqueAssets, LAMBDA id : Len(getAssetById(assetTable, id)) = 0)

\* The data lines of the files uploaded so far
UploadedDataRows(table) == Sum([k \in 1..Len(table) |-> table[k].rowCount])

\* createAsset({id, name, type, location: "Unknown"})
NewAssetRow(assetId) ==
    [id |-> assetId, name |-> createAssetName(assetId), type |-> determineAssetType(assetId),
     location |-> "Unknown", manufacturer |-> "", model |-> ""]

\* createUploadedFile: the id is fresh (time of day and a random suffix)
FileId(n) == <<"file", n>>

\* The uploaded_files row written before the rows are processed, and never
\* written again
UploadedFileRow(fileId, fileName, rows) ==
    [id |-> fileId, fileName |-> fileName, rowCount |-> Len(rows) - 1,
     assetCount |-> 0,  \* "Will update after processing"
     status |-> "uploaded"]

\* The error body of a rejected request
ErrorResponse(endpoint, httpStatus, code) ==
    [endpoint |-> endpoint, status |-> "error", http |-> httpStatus, code |-> code]

\* The 404 body of /api/train and /api/predict:
\* message: `File with ID '${file_id}' not found`
FileNotFoundResponse(endpoint, file_id) ==
    [endpoint |-> endpoint, status |-> "error", http |-> 404, code |-> "FILE_NOT_FOUND",
     message |-> <<"File with ID '", file_id, "' not found">>]

\* The success body of POST /api/upload
UploadResponse(fileId, header, rows, validReadings, uniqueAssets, issues) ==
    [endpoint |-> "upload", status |-> "success", http |-> 200,
     file_id |-> fileId,
     rows_ingested |-> Len(validReadings),
     assets_detected |-> Len(uniqueAssets),
     columns |-> header,
     validation_summary |->
        [total_rows |-> Len(rows) - 1, valid_rows |-> Len(validReadings),
         invalid_rows |-> Len(issues), missing_values |-> 0, outliers_detected |-> 0]]

\* The name check of the mutant below: any name passes
AnyFileName(name) == TRUE

\* file.name.endsWith(".csv"), a name being <<base, extension>>
EndsWithCsv(name) == name[Len(name)] = ".csv"

-----------------------------------------------------------------------------
(* POST /api/predict *)

\* probability < 0.3 ? "green" : probability < 0.7 ? "yellow" : "red",
\* of the mutant below: with the thresholds included in the lower level
RiskLevelInclusive(probability) ==
    IF probability <= 3000 THEN "green"
    ELSE IF probability <= 7000 THEN "yellow"
    ELSE "red"

\* probability < 0.3 ? "green" : probability < 0.7 ? "yellow" : "red"
RiskLevel(probability) ==
    IF probability < 3000 THEN "green"
    ELSE IF probability < 7000 THEN "yellow"
    ELSE "red"

\* The lookup of the mutant below: the id is not compared
getUploadedFileIgnoringId(table, id) == table

\* getUploadedFileById(id): the rows with that id
getUploadedFileById(table, id) == SelectSeq(table, LAMBDA f : f.id = id)

\* The element of the response for one stored prediction
PredictionJson(assetRow, stored) ==
    [asset_id |-> assetRow.id, asset_name |-> assetRow.name,
     risk_level |-> stored.riskLevel, failure_probability |-> stored.probability,
     recommendation |-> stored.recommendation]

\* --- the requests sent to the endpoints

\* Header lines: the required columns; the same in another order with one
\* more column; and one without failure_flag
StandardHeader == requiredColumns

WideHeader ==
    <<"asset_id", "site", "timestamp", "tempF", "pressurePSI", "vibrationMM", "failure_flag">>

ShortHeader == <<"timestamp", "asset_id", "tempF", "pressurePSI", "vibrationMM">>

Headers == {StandardHeader, WideHeader, ShortHeader}

\* Kinds of data line: a good reading of the pump, one of the compressor, a
\* temperature above the accepted range, an empty asset id, a line cut off
\* after its first cell
LineKinds == {"pump", "comp", "hot", "anon", "cut"}

\* The cells of a data line of a kind, by column, for minute t
CellsOf(kind, t) ==
    [timestamp |-> Iso(t),
     asset_id |-> CASE kind = "comp" -> Text("COMP-204")
                    [] kind = "anon" -> Blank
                    [] OTHER -> Text("PUMP-101"),
     tempF |-> IF kind = "hot" THEN Num(501) ELSE Num(70),
     pressurePSI |-> Num(50),
     vibrationMM |-> Num(2),
     failure_flag |-> Num(0),
     site |-> Text("A")]

\* The data line under a header
DataLine(header, kind, t) ==
    LET full == [k \in 1..Len(header) |-> CellsOf(kind, t)[header[k]]]
    IN  IF kind = "cut" THEN SubSeq(full, 1, 1) ELSE full

\* parseCSV(csvText) of a file with a header line and one data line per kind
ParsedCsv(header, kinds) ==
    <<header>> \o [k \in 1..Len(kinds) |-> DataLine(header, kinds[k], k - 1)]

KindLists == UNION {[1..n -> LineKinds] : n \in 0..MaxDataRows}

\* formData.get("file"): no file, a file that is not named .csv, a CSV file
UploadRequests ==
    {[hasFile |-> FALSE]}
    \cup {[hasFile |-> TRUE, name |-> <<"data", ".txt">>,
           rows |-> ParsedCsv(StandardHeader, <<"pump">>)]}
    \cup {[hasFile |-> TRUE, name |-> <<"data", ".csv">>, rows |-> ParsedCsv(h, kinds)] :
             h \in Headers, kinds \in KindLists}

\* Math.random() at and next to the thresholds, in ten-thousandths
Probabilities == {2999, 3000, 6999, 7000}

\* file_id of a request body: the id of a stored file, or one never issued
RequestedFileIds == {FileId(n) : n \in 0..MaxUploads}

-----------------------------------------------------------------------------
(* GET /api/assets *)

\* getAllAssets(type ? { type } : undefined)
getAllAssets(table, type) ==
    IF type = Null THEN table ELSE SelectSeq(table, LAMBDA a : a.type = type)

\* getLatestPredictionForAsset(assetId): the first row of
\* .orderBy(desc(predictedAt)).limit(1), or none.  Among rows that share the
\* latest predictedAt the engine returns the one it meets first, which is the
\* earliest or the latest inserted, depending on its plan (tieBreak)
getLatestPredictionForAsset(table, assetId, tieBreak) ==
    LET mine == WhereAssetId(table, assetId)
        tops == SelectSeq(mine, LAMBDA p : p \in LatestPredictions(table, assetId))
    IN  IF Len(tops) = 0 THEN <<>>
        ELSE IF tieBreak = "first" THEN <<tops[1]>>
        ELSE <<tops[Len(tops)]>>

\* One element of assetsWithPredictions
AssetListItem(assetRow, latest) ==
    [id |-> assetRow.id, name |-> assetRow.name, type |-> assetRow.type,
     location |-> assetRow.location, manufacturer |-> assetRow.manufacturer,
     model |-> assetRow.model,
     riskLevel |-> IF Len(latest) = 0 THEN "green" ELSE latest[1].riskLevel,
     failureProbability |-> IF Len(latest) = 0 THEN 0 ELSE latest[1].probability,
     recommendation |-> IF Len(latest) = 0 THEN "No prediction available"
                        ELSE latest[1].recommendation,
     \* null is <<>>, a date <<date>>
     lastPredictionDate |-> IF Len(latest) = 0 THEN <<>> ELSE <<latest[1].predictedAt>>]

\* AssetQuerySchema.parse(queryParams) succeeds; an absent type or riskLevel
\* is Null, an absent page or limit is <<>> and a given one <<number>>
QueryIsValid(q) ==
    /\ q.type \in {Null, "pump", "compressor", "motor", "other"}
    /\ q.riskLevel \in {Null, "green", "yellow", "red"}
    /\ q.page = <<>> \/ q.page[1] >= 1
    /\ q.limit = <<>> \/ (q.limit[1] >= 1 /\ q.limit[1] <= 100)

\* The page of the mutant below: the slice is taken first and filtered
\* afterwards
PaginateThenFilter(items, riskLevel, page, limit) ==
    LET paginated == Slice(items, (page - 1) * limit, (page - 1) * limit + limit)
        filtered == IF riskLevel # Null
                    THEN SelectSeq(paginated, LAMBDA a : a.riskLevel = riskLevel)
                    ELSE paginated
    IN  [assets |-> filtered,
         pagination |-> [page |-> page, limit |-> limit, total |-> Len(filtered),
                         totalPages |-> MathCeilDiv(Len(filtered), limit)]]

\* filteredAssets, paginatedAssets and the pagination block
FilterThenPaginate(items, riskLevel, page, limit) ==
    LET filteredAssets == IF riskLevel # Null
                          THEN SelectSeq(items, LAMBDA a : a.riskLevel = riskLevel)
                          ELSE items
        start == (page - 1) * limit
        end == start + limit
    IN  [assets |-> Slice(filteredAssets, start, end),
         pagination |-> [page |-> page, limit |-> limit, total |-> Len(filteredAssets),
                         totalPages |-> MathCeilDiv(Len(filteredAssets), limit)]]

\* The error codes of a request whose parameters fail the schema: the handler
\* answers VALIDATION_ERROR when the error's message contains "validation"
\* and INTERNAL_ERROR otherwise, and the message is the validator's
InvalidQueryResponses ==
    {ErrorResponse("assets", 400, "VALIDATION_ERROR"),
     ErrorResponse("assets", 500, "INTERNAL_ERROR")}

\* GET /api/assets?type=&riskLevel=&page=&limit= with valid parameters
GetAssets(assetTable, predictionTable, q, tieBreak) ==
    LET found == getAllAssets(assetTable, q.type)
        assetsWithPredictions ==
           [k \in 1..Len(found) |->
               AssetListItem(found[k],
                             getLatestPredictionForAsset(predictionTable, found[k].id,
                                                         tieBreak))]
        page == IF q.page = <<>> THEN 1 ELSE q.page[1]
        limit == IF q.limit = <<>> THEN 50 ELSE q.limit[1]
        body == FilterThenPaginate(assetsWithPredictions, q.riskLevel, page, limit)
    IN  [endpoint |-> "assets", status |-> "success", http |-> 200,
         assets |-> body.assets, pagination |-> body.pagination]

\* --- the stored assets the list is asked for

\* What is stored of predictions for one asset: none; one of a level; two
\* made in the same second, green then red; a yellow one renewed by a red one
PredictionHistories == {"none", "green", "yellow", "red", "tie", "renewed"}

HistoryRows(assetId, history) ==
    CASE history = "none" -> <<>>
      [] history = "green" -> <<PredictionRow(assetId, 1204, "green", 0)>>
      [] history = "yellow" -> <<PredictionRow(assetId, 4200, "yellow", 0)>>
      [] history = "red" -> <<PredictionRow(assetId, 8536, "red", 0)>>
      [] history = "tie" -> <<PredictionRow(assetId, 1204, "green", 0),
                              PredictionRow(assetId, 8536, "red", 0)>>
      [] OTHER -> <<PredictionRow(assetId, 4200, "yellow", 0),
                    PredictionRow(assetId, 8536, "red", 1)>>

\* Three assets as POST /api/upload creates them
ListedAssets ==
    <<NewAssetRow("PUMP-101"), NewAssetRow("COMP-204"), NewAssetRow("MOTOR-7")>>

\* The histories of the three: any for the first, without repeated predictions
\* for the second, none or a red one for the third
ListedHistories ==
    {h \in [1..Len(ListedAssets) -> PredictionHistories] :
        /\ h[2] \notin {"tie", "renewed"}
        /\ h[3] \in {"none", "red"}}

\* Query parameters: absent, or a value; page 0 fails the schema
ListQueries ==
    {[type |-> t, riskLevel |-> r, page |-> p, limit |-> l] :
        t \in {Null, "pump"}, r \in {Null, "green", "yellow", "red"},
        p \in {<<>>} \cup {<<n>> : n \in 0..MaxPage},
        l \in {<<>>} \cup {<<n>> : n \in 1..MaxLimit}}

\* --- the sorted list of AssetTable

\* The texts of the model in the order of String.prototype.localeCompare:
\* asset ids, asset names, locations
IdsInLocaleOrder == <<"COMP-204", "MOTOR-7", "PUMP-1", "PUMP-101">>

NamesInLocaleOrder ==
    <<createAssetName("COMP-204"), createAssetName("MOTOR-7"), createAssetName("PUMP-101")>>

LocationsInLocaleOrder == <<"", "Bay 1", "Unknown">>

\* a.localeCompare(b) for two texts of one of these lists: negative, zero or
\* positive
LocaleCompare(order, a, b) == IndexOf(order, a) - IndexOf(order, b)

\* const riskOrder = { red: 3, yellow: 2, green: 1 }
riskOrder == [red |-> 3, yellow |-> 2, green |-> 1]

\* The comparison of two assets under the switch on sortField
SortComparison(a, b, field) ==
    CASE field = "id" -> LocaleCompare(IdsInLocaleOrder, a.id, b.id)
      [] field = "name" -> LocaleCompare(NamesInLocaleOrder, a.name, b.name)
      [] field = "location" ->
            LocaleCompare(LocationsInLocaleOrder,
                          IF a.location = Null THEN "" ELSE a.location,
                          IF b.location = Null THEN "" ELSE b.location)
      [] field = "riskLevel" -> riskOrder[a.riskLevel] - riskOrder[b.riskLevel]
      [] field = "failureProbability" -> a.failureProbability - b.failureProbability
      [] OTHER -> 0

\* Array.prototype.sort(compare) on a copy: the elements in the order of
\* compare, those that compare equal in their order in the array
StableSort(arr, compare(_, _)) ==
    LET n == Len(arr)
        before(j, i) == compare(arr[j], arr[i]) < 0
                        \/ (compare(arr[j], arr[i]) = 0 /\ j < i)
        place(i) == Cardinality({j \in 1..n : before(j, i)}) + 1
    IN  [p \in 1..n |-> arr[CHOOSE i \in 1..n : place(i) = p]]

\* sortedAssets of the mutant below: the direction is not looked at
sortedAssetsAscending(fetched, field, direction) ==
    StableSort(fetched, LAMBDA a, b : SortComparison(a, b, field))

\* sortedAssets: [...assets].sort((a, b) => sortDirection === "asc" ?
\* comparison : -comparison)
sortedAssets(fetched, field, direction) ==
    StableSort(fetched,
               LAMBDA a, b : IF direction = "asc" THEN SortComparison(a, b, field)
                             ELSE -SortComparison(a, b, field))

\* useAssets().data: data.data.assets of GET /api/assets without parameters
UseAssetsData(assetTable, predictionTable, tieBreak) ==
    GetAssets(assetTable, predictionTable,
              [type |-> Null, riskLevel |-> Null, page |-> <<>>, limit |-> <<>>],
              tieBreak).assets

-----------------------------------------------------------------------------
(* The state machine: browser *)

\* useAsset(...).data while there is none
NoData == [asset |-> [id |-> Null], readings |-> <<>>, prediction |-> NoPrediction]

\* AssetTable as mounted: nothing expanded, 24 hours, sorted by risk, descending
InitTable ==
    /\ expandedAssetId = Null
    /\ timeRange = 24
    /\ sortField = "riskLevel"
    /\ sortDirection = "desc"
    /\ isLoading = FALSE
    /\ readings = NoData.readings
    /\ prediction = NoData.prediction
    /\ asset = NoData.asset

InitOutput ==
    /\ clock = 0
    /\ view = NoView
    /\ report = NoReport
    /\ prevReport = NoReport

NoResponse == [endpoint |-> "none"]

InitServerEmpty ==
    /\ uploadedFiles = <<>>
    /\ assets = <<>>
    /\ sensorReadings = <<>>
    /\ predictions = <<>>
    /\ dataQualityIssues = <<>>
    /\ response = NoResponse
    /\ trainedFiles = {}
    /\ inFlight = <<>>

\* AssetDetail mounted with the query of one asset loaded
Init ==
    /\ \E in \in Inputs, a \in Assets :
          LET data == UseAssetData(AssetResponseBody(a, FetchedReadings(in.p, in.n),
                                                     ProfilePrediction(in.p)))
          IN  /\ readings = data.readings
              /\ prediction = data.prediction
              /\ asset = data.asset
              /\ expandedAssetId = a.id
              /\ timeRange = in.tr
    /\ sortField = "riskLevel"
    /\ sortDirection = "desc"
    /\ isLoading = FALSE
    /\ InitOutput
    /\ InitServerEmpty

\* The dashboard opened on the stored history
InitDashboard ==
    /\ InitTable
    /\ InitOutput
    /\ uploadedFiles = <<>>
    /\ assets = SeedAssets
    /\ sensorReadings = SeedReadings
    /\ predictions = SeedPredictions
    /\ dataQualityIssues = <<>>
    /\ response = NoResponse
    /\ trainedFiles = {}
    /\ inFlight = <<>>

\* Time passes
Tick ==
    /\ clock < MaxClock
    /\ clock' = clock + 1
    /\ UNCHANGED <<queryVars, tableVars, view, report, prevReport, serverVars>>

\* React renders AssetDetail with the loaded data
Render ==
    /\ expandedAssetId # Null
    /\ ~isLoading
    /\ readings' = SpreadReverse(readings).fetched
    /\ view' = RenderView(readings, timeRange)
    /\ UNCHANGED <<prediction, asset, tableVars, clock, report, prevReport, serverVars>>

\* The user clicks "Export Report" of the rendered detail
Export ==
    /\ view.rendered
    /\ report' = ExportDetailedReport(asset, readings, prediction, timeRange, clock)
    /\ prevReport' = report
    /\ UNCHANGED <<queryVars, tableVars, clock, view, serverVars>>

\* The ids of the rows of the table
TableAssetIds == {assets[k].id : k \in 1..Len(assets)}

\* The query key changed: the detail shows the loader until the data arrives
StartLoading ==
    /\ isLoading' = TRUE
    /\ readings' = NoData.readings
    /\ prediction' = NoData.prediction
    /\ asset' = NoData.asset
    /\ view' = NoView

\* The detail is unmounted
Unmount ==
    /\ isLoading' = FALSE
    /\ readings' = NoData.readings
    /\ prediction' = NoData.prediction
    /\ asset' = NoData.asset
    /\ view' = NoView

ToggleAssetResetsRange(assetId) ==
    /\ assetId \in TableAssetIds
    /\ expandedAssetId' = IF expandedAssetId = assetId THEN Null ELSE assetId
    /\ IF expandedAssetId = assetId THEN Unmount ELSE StartLoading
    /\ timeRange' = 24
    /\ UNCHANGED <<sortField, sortDirection, clock, report, prevReport, serverVars>>

\* toggleAsset of the mutant below: a click on any row collapses the expanded
\* one
ToggleAssetCollapsesFirst(assetId) ==
    /\ assetId \in TableAssetIds
    /\ expandedAssetId' = IF expandedAssetId # Null THEN Null ELSE assetId
    /\ IF expandedAssetId # Null THEN Unmount ELSE StartLoading
    /\ UNCHANGED <<timeRange, sortField, sortDirection, clock, report, prevReport,
                   serverVars>>

\* toggleAsset(assetId): a click on a row of the table
ToggleAsset(assetId) ==
    /\ assetId \in TableAssetIds
    /\ expandedAssetId' = IF expandedAssetId = assetId THEN Null ELSE assetId
    /\ IF expandedAssetId = assetId THEN Unmount ELSE StartLoading
    /\ UNCHANGED <<timeRange, sortField, sortDirection, clock, report, prevReport,
                   serverVars>>

SortFields == {"id", "name", "location", "riskLevel", "failureProbability"}

\* handleSort(field): a click on a column header
HandleSort(field) ==
    /\ field \in SortFields
    /\ IF sortField = field
       THEN /\ sortDirection' = (IF sortDirection = "asc" THEN "desc" ELSE "asc")
            /\ UNCHANGED sortField
       ELSE /\ sortField' = field
            /\ sortDirection' = "asc"
    /\ UNCHANGED <<queryVars, expandedAssetId, timeRange, isLoading, outputVars, serverVars>>

\* setTimeRange(hours): a click on a time-range button of the loaded detail
SetTimeRange(hours) ==
    /\ hours \in SupportedRanges
    /\ expandedAssetId # Null
    /\ ~isLoading
    /\ timeRange' = hours
    /\ IF hours = timeRange
       THEN UNCHANGED <<queryVars, isLoading, view>>
       ELSE StartLoading
    /\ UNCHANGED <<expandedAssetId, sortField, sortDirection, clock, report, prevReport,
                   serverVars>>

\* The query of the expanded row resolves: GET /api/assets/[id] answered
FetchDone ==
    /\ expandedAssetId # Null
    /\ isLoading
    /\ \E latest \in (IF LatestPredictions(predictions, expandedAssetId) = {}
                      THEN {<<>>}
                      ELSE {<<l>> : l \in LatestPredictions(predictions, expandedAssetId)}) :
          \E res \in {GetAsset(assets, sensorReadings, expandedAssetId,
                                FullWindow(timeRange), latest)} :
             /\ res.status = 200
             /\ \E data \in {UseAssetData(res.body)} :
                   /\ readings' = data.readings
                   /\ prediction' = data.prediction
                   /\ asset' = data.asset
    /\ isLoading' = FALSE
    /\ UNCHANGED <<expandedAssetId, timeRange, sortField, sortDirection, outputVars,
                   serverVars>>

Next == Tick \/ Render \/ Export

Spec == Init /\ [][Next]_vars

NextDashboard ==
    \/ \E a \in TableAssetIds : ToggleAsset(a)
    \/ \E h \in SupportedRanges : SetTimeRange(h)
    \/ FetchDone
    \/ Render
    \/ Export

SpecDashboard == InitDashboard /\ [][NextDashboard]_vars

NextTable ==
    \/ \E a \in TableAssetIds : ToggleAsset(a)
    \/ \E f \in SortFields : HandleSort(f)
    \/ \E h \in SupportedRanges : SetTimeRange(h)
    \/ FetchDone

SpecTable == InitDashboard /\ [][NextTable]_vars

-----------------------------------------------------------------------------
(* The state machine: server *)

\* The service started on an empty database
InitApi == InitTable /\ InitOutput /\ InitServerEmpty

\* POST /api/upload
Upload(request) ==
    /\ IF ~request.hasFile
       THEN /\ response' = ErrorResponse("upload", 400, "VALIDATION_ERROR")
            /\ UNCHANGED dbVars
       ELSE IF ~EndsWithCsv(request.name)
       THEN /\ response' = ErrorResponse("upload", 400, "VALIDATION_ERROR")
            /\ UNCHANGED dbVars
       ELSE IF Len(request.rows) < 2
       THEN /\ response' = ErrorResponse("upload", 400, "VALIDATION_ERROR")
            /\ UNCHANGED dbVars
       ELSE IF Len(missingColumns(request.rows[1])) > 0
       THEN /\ response' = ErrorResponse("upload", 400, "VALIDATION_ERROR")
            /\ UNCHANGED dbVars
       ELSE /\ Len(uploadedFiles) < MaxUploads
            /\ UploadedDataRows(uploadedFiles) + Len(request.rows) - 1 <= MaxStoredRows
            /\ \E fileId \in {FileId(Len(uploadedFiles) + 1)} :
               \E processed \in {[i \in 1..(Len(request.rows) - 1) |->
                                    ProcessRow(fileId, request.rows[1], request.rows[i + 1])]} :
                 LET header == request.rows[1]
                     validRows == SelectSeq(processed, LAMBDA o : o.outcome = "reading")
                     validReadings == [k \in 1..Len(validRows) |-> validRows[k].reading]
                     issueRows == SelectSeq(processed, LAMBDA o : o.outcome = "issue")
                     issues == [k \in 1..Len(issueRows) |-> issueRows[k].issue]
                     uniqueAssets ==
                        InsertionOrder([k \in 1..Len(validReadings) |-> validReadings[k].assetId])
                     missing == AssetsToCreate(assets, uniqueAssets)
                 IN  /\ uploadedFiles' =
                           Append(uploadedFiles,
                                  UploadedFileRow(fileId, request.name, request.rows))
                     /\ dataQualityIssues' = dataQualityIssues \o issues
                     /\ assets' = assets \o [k \in 1..Len(missing) |-> NewAssetRow(missing[k])]
                     /\ sensorReadings' = sensorReadings \o validReadings
                     /\ response' = UploadResponse(fileId, header, request.rows,
                                                   validReadings, uniqueAssets, issues)
                     /\ UNCHANGED predictions
    /\ UNCHANGED <<trainedFiles, inFlight, queryVars, tableVars, outputVars>>

\* POST /api/train
Train(file_id) ==
    /\ IF Len(getUploadedFileById(uploadedFiles, file_id)) = 0
       THEN /\ response' = FileNotFoundResponse("train", file_id)
            /\ UNCHANGED trainedFiles
       ELSE /\ response' = [endpoint |-> "train", status |-> "success", http |-> 200,
                            file_id |-> file_id, training |-> "training"]
            /\ trainedFiles' = trainedFiles \cup {file_id}
    /\ UNCHANGED <<dbVars, inFlight, queryVars, tableVars, outputVars>>

\* POST /api/predict
Predict(file_id) ==
    /\ IF Len(getUploadedFileById(uploadedFiles, file_id)) = 0
       THEN /\ response' = FileNotFoundResponse("predict", file_id)
            /\ UNCHANGED predictions
       ELSE /\ Len(predictions) + Len(assets) <= MaxPredictions
            /\ \E random \in [1..Len(assets) -> Probabilities] :
                 LET stored == [k \in 1..Len(assets) |->
                                   PredictionRow(assets[k].id, random[k],
                                                 RiskLevel(random[k]), clock)]
                 IN  /\ predictions' = predictions \o stored
                     /\ response' =
                           [endpoint |-> "predict", status |-> "success", http |-> 200,
                            file_id |-> file_id,
                            predictions |-> [k \in 1..Len(assets) |->
                                                PredictionJson(assets[k], stored[k])],
                            model_version |-> "stub_v0.1"]
    /\ UNCHANGED <<uploadedFiles, assets, sensorReadings, dataQualityIssues, trainedFiles,
                   inFlight, queryVars, tableVars, outputVars>>

\* db.delete(table).where(eq(table.assetId, id)) of the mutant below: without
\* the where clause
DeleteEveryRow(table, id) == <<>>

\* db.delete(table).where(eq(table.assetId, id))
DeleteWhereAssetId(table, id) == SelectSeq(table, LAMBDA r : r.assetId # id)

\* The ids deleteAsset is called with
DeletableAssetIds == {"PUMP-101", "COMP-204"}

\* deleteAsset(id)
DeleteAsset(id) ==
    /\ sensorReadings' = DeleteWhereAssetId(sensorReadings, id)
    /\ predictions' = DeleteWhereAssetId(predictions, id)
    /\ assets' = SelectSeq(assets, LAMBDA a : a.id # id)
    /\ UNCHANGED <<uploadedFiles, dataQualityIssues, response, trainedFiles, inFlight,
                   queryVars, tableVars, outputVars>>

NextApi ==
    \/ \E request \in UploadRequests : Upload(request)
    \/ \E id \in RequestedFileIds : Train(id)
    \/ \E id \in RequestedFileIds : Predict(id)

SpecApi == InitApi /\ [][NextApi]_vars

NextStore ==
    \/ \E request \in UploadRequests : Upload(request)
    \/ \E id \in RequestedFileIds : Predict(id)
    \/ \E id \in DeletableAssetIds : DeleteAsset(id)

SpecStore == InitApi /\ [][NextStore]_vars

\* The service with three assets stored and some predictions made
InitList ==
    /\ InitTable
    /\ InitOutput
    /\ uploadedFiles = <<>>
    /\ assets = ListedAssets
    /\ sensorReadings = <<>>
    /\ \E h \in ListedHistories :
          predictions = HistoryRows(ListedAssets[1].id, h[1])
                        \o HistoryRows(ListedAssets[2].id, h[2])
                        \o HistoryRows(ListedAssets[3].id, h[3])
    /\ dataQualityIssues = <<>>
    /\ response = NoResponse
    /\ trainedFiles = {}
    /\ inFlight = <<>>

\* GET /api/assets
ListAssets(q, tieBreak) ==
    /\ IF QueryIsValid(q)
       THEN response' = GetAssets(assets, predictions, q, tieBreak)
       ELSE response' \in InvalidQueryResponses
    /\ UNCHANGED <<dbVars, trainedFiles, inFlight, queryVars, tableVars, outputVars>>

NextList == \E q \in ListQueries, tieBreak \in {"first", "last"} : ListAssets(q, tieBreak)

SpecList == InitList /\ [][NextList]_vars

\* The asset table over the three stored assets: clicks on column headers
NextSort == \E f \in SortFields : HandleSort(f)

SpecSort == InitList /\ [][NextSort]_vars

-----------------------------------------------------------------------------
(* The state machine: POST /api/upload, one step per database call *)

\* The handler yields at each await; between two of its database calls those
\* of another request may run.  A handler in flight is a record of the point
\* it has reached (pc) and its locals:
\*   "rows"    createUploadedFile has returned; the loop over the rows is next
\*   "check"   await getAssetById(uniqueAssets[next]) is next
\*   "create"  the check found no asset; await createAsset(...) is next
\*   "insert"  the loop over uniqueAssets is over; insertSensorReadings is next
\*   "done"    the response has been sent
Handler(pc, request, fileId) ==
    [pc |-> pc, rows |-> request.rows, name |-> request.name, fileId |-> fileId,
     validReadings |-> <<>>, uniqueAssets |-> <<>>, issues |-> <<>>, next |-> 1,
     response |-> NoResponse]

\* The handler of a request answered without any database call
Answered(r) ==
    [pc |-> "done", rows |-> <<>>, name |-> <<>>, fileId |-> <<>>,
     validReadings |-> <<>>, uniqueAssets |-> <<>>, issues |-> <<>>, next |-> 1,
     response |-> r]

\* The next iteration of for (const assetId of uniqueAssets), or what follows
\* the loop
AfterAsset(h) ==
    [h EXCEPT !.next = h.next + 1,
              !.pc = IF h.next + 1 <= Len(h.uniqueAssets) THEN "check" ELSE "insert"]

\* The handler up to and including createUploadedFile
StartUpload(request) ==
    /\ Len(inFlight) < MaxConcurrent
    /\ IF \/ ~request.hasFile
          \/ ~EndsWithCsv(request.name)
          \/ Len(request.rows) < 2
          \/ Len(missingColumns(request.rows[1])) > 0
       THEN /\ response' = ErrorResponse("upload", 400, "VALIDATION_ERROR")
            /\ inFlight' = Append(inFlight, Answered(response'))
            /\ UNCHANGED uploadedFiles
       ELSE \E fileId \in {FileId(Len(uploadedFiles) + 1)} :
               /\ uploadedFiles' = Append(uploadedFiles,
                                          UploadedFileRow(fileId, request.name, request.rows))
               /\ inFlight' = Append(inFlight, Handler("rows", request, fileId))
               /\ UNCHANGED response
    /\ UNCHANGED <<assets, sensorReadings, predictions, dataQualityIssues, trainedFiles,
                   queryVars, tableVars, outputVars>>

\* The loop over the data rows, with its createDataQualityIssue calls
ProcessRows(i) ==
    /\ i \in 1..Len(inFlight)
    /\ inFlight[i].pc = "rows"
    /\ \E h \in {inFlight[i]} :
       \E processed \in {[k \in 1..(Len(h.rows) - 1) |->
                            ProcessRow(h.fileId, h.rows[1], h.rows[k + 1])]} :
          LET validRows == SelectSeq(processed, LAMBDA o : o.outcome = "reading")
              validReadings == [k \in 1..Len(validRows) |-> validRows[k].reading]
              issueRows == SelectSeq(processed, LAMBDA o : o.outcome = "issue")
              issues == [k \in 1..Len(issueRows) |-> issueRows[k].issue]
              uniqueAssets ==
                 InsertionOrder([k \in 1..Len(validReadings) |-> validReadings[k].assetId])
          IN  /\ dataQualityIssues' = dataQualityIssues \o issues
              /\ inFlight' =
                    [inFlight EXCEPT ![i] =
                        [h EXCEPT !.validReadings = validReadings,
                                  !.uniqueAssets = uniqueAssets,
                                  !.issues = issues,
                                  !.pc = IF Len(uniqueAssets) > 0 THEN "check" ELSE "insert"]]
    /\ UNCHANGED <<uploadedFiles, assets, sensorReadings, predictions, response,
                   trainedFiles, queryVars, tableVars, outputVars>>

\* const existingAsset = await getAssetById(assetId)
CheckAsset(i) ==
    /\ i \in 1..Len(inFlight)
    /\ inFlight[i].pc = "check"
    /\ LET h == inFlight[i]
           existingAsset == getAssetById(assets, h.uniqueAssets[h.next])
       IN  inFlight' = [inFlight EXCEPT ![i] =
                           IF Len(existingAsset) = 0 THEN [h EXCEPT !.pc = "create"]
                           ELSE AfterAsset(h)]
    /\ UNCHANGED <<dbVars, response, trainedFiles, queryVars, tableVars, outputVars>>

\* await createAsset(...): assets.id is the primary key, so that the insert of
\* an id that is stored fails, and the handler's catch answers UPLOAD_FAILED
CreateAsset(i) ==
    /\ i \in 1..Len(inFlight)
    /\ inFlight[i].pc = "create"
    /\ LET h == inFlight[i]
           assetId == h.uniqueAssets[h.next]
       IN  IF Len(getAssetById(assets, assetId)) > 0
           THEN /\ response' = ErrorResponse("upload", 500, "UPLOAD_FAILED")
                /\ inFlight' = [inFlight EXCEPT ![i] =
                                   [h EXCEPT !.pc = "done", !.response = response']]
                /\ UNCHANGED assets
           ELSE /\ assets' = Append(assets, NewAssetRow(assetId))
                /\ inFlight' = [inFlight EXCEPT ![i] = AfterAsset(h)]
                /\ UNCHANGED response
    /\ UNCHANGED <<uploadedFiles, sensorReadings, predictions, dataQualityIssues,
                   trainedFiles, queryVars, tableVars, outputVars>>

\* insertSensorReadings(validReadings) and the success response
InsertReadings(i) ==
    /\ i \in 1..Len(inFlight)
    /\ inFlight[i].pc = "insert"
    /\ LET h == inFlight[i]
       IN  /\ sensorReadings' = sensorReadings \o h.validReadings
           /\ response' = UploadResponse(h.fileId, h.rows[1], h.rows, h.validReadings,
                                         h.uniqueAssets, h.issues)
           /\ inFlight' = [inFlight EXCEPT ![i] =
                              [h EXCEPT !.pc = "done", !.response = response']]
    /\ UNCHANGED <<uploadedFiles, assets, predictions, dataQualityIssues, trainedFiles,
                   queryVars, tableVars, outputVars>>

\* The requests sent at the same time: no file, or a CSV with the standard
\* header and good or too hot lines
ConcurrentRequests ==
    {[hasFile |-> FALSE]}
    \cup {[hasFile |-> TRUE, name |-> <<"data", ".csv">>,
           rows |-> ParsedCsv(StandardHeader, kinds)] :
             kinds \in {l \in KindLists : \A k \in 1..Len(l) : l[k] \in {"pump", "comp", "hot"}}}

NextConcurrent ==
    \/ \E request \in ConcurrentRequests : StartUpload(request)
    \/ \E i \in 1..MaxConcurrent : ProcessRows(i)
    \/ \E i \in 1..MaxConcurrent : CheckAsset(i)
    \/ \E i \in 1..MaxConcurrent : CreateAsset(i)
    \/ \E i \in 1..MaxConcurrent : InsertReadings(i)

SpecConcurrent == InitApi /\ [][NextConcurrent]_vars

-----------------------------------------------------------------------------
(* Properties *)

\* The fetched readings in chronological order (oldest first)
Chrono == Reversed(readings)

NumReadings == Len(readings)

\* The chunk list calculateChunkedMetrics returned to the last render
Table == view.segments.table

\* The same list, oldest chunk first
Generated == Reversed(Table)

\* ceil(n / size), written without division
IsCeilOf(count, n, size) == count * size >= n /\ (count - 1) * size < n

\* C1: for a non-empty reading sequence the chunk list has ceil(n / chunkSize)
\* chunks; they cover consecutive, disjoint index ranges from 0 to n, none is
\* empty, their reading counts sum to n, and every chunk except the one with the
\* newest readings has exactly chunkSize readings.
ChunksPartitionReadings ==
    (view.rendered /\ NumReadings > 0) =>
        LET size == ChunkConfig(timeRange).size
            g == Generated
            m == Len(g)
        IN  /\ IsCeilOf(m, NumReadings, size)
            /\ g[1].start = 0
            /\ g[m].end = NumReadings
            /\ \A k \in 1..(m - 1) : g[k + 1].start = g[k].end
            /\ \A k \in 1..m : g[k].count = g[k].end - g[k].start /\ g[k].count > 0
            /\ \A k \in 1..(m - 1) : g[k].count = size
            /\ Sum([k \in 1..m |-> g[k].count]) = NumReadings

\* Three chunks or more, the newest one shorter than the others
ChunksPartitionReadingsWitness ==
    /\ view.rendered
    /\ Len(Table) >= 3
    /\ Table[1].count < ChunkConfig(timeRange).size

\* C2: the returned list is the reverse of generation order: the element at
\* (0-based) position k carries chunkIndex numChunks - 1 - k.
ReturnedNewestFirst ==
    (view.rendered /\ NumReadings > 0) =>
        /\ IsCeilOf(Len(Table), NumReadings, ChunkConfig(timeRange).size)
        /\ \A k \in 1..Len(Table) : Table[k].chunkIndex = Len(Table) - k
        /\ \A k \in 1..Len(Generated) : Generated[k].chunkIndex = k - 1

ReturnedNewestFirstWitness ==
    /\ view.rendered
    /\ Len(Table) >= 2
    /\ Table[1].chunkIndex = Len(Table) - 1

\* The lines of the report's half-to-half section for the split at floor(n / 2)
ExpectedTrendLines ==
    LET mid == NumReadings \div 2
    IN  TrendLines(calcMetrics(SubSeq(Chrono, 1, mid)),
                   calcMetrics(SubSeq(Chrono, mid + 1, NumReadings)))

ReportTrendLines ==
    SelectSeq(report.lines,
              LAMBDA l : l.tag \in {"TREND ANALYSIS: FIRST HALF vs SECOND HALF", "Metric",
                                    "Average", "Maximum", "Minimum"})

\* C3: in the on-screen table and in the exported report alike, firstHalf is
\* the prefix of length floor(n / 2) of the chronological readings, secondHalf
\* the remaining suffix, and the two lengths add up to n.
HalvesSplitAtFloor ==
    LET mid == NumReadings \div 2
    IN  /\ view.rendered =>
              /\ view.half.firstLength = mid
              /\ view.half.firstLength + view.half.secondLength = NumReadings
              /\ view.half.firstMetrics = calcHalfMetrics(SubSeq(Chrono, 1, mid))
              /\ view.half.secondMetrics
                    = calcHalfMetrics(SubSeq(Chrono, mid + 1, NumReadings))
        /\ report.exported =>
              /\ report.firstLength = mid
              /\ report.firstLength + report.secondLength = NumReadings
              /\ ReportTrendLines = SelectSeq(ExpectedTrendLines, LAMBDA l : l.tag # "")

\* An odd number of readings, rendered and exported
HalvesSplitAtFloorWitness ==
    /\ view.rendered
    /\ report.exported
    /\ NumReadings >= 3
    /\ NumReadings % 2 = 1
    /\ view.half.secondLength = view.half.firstLength + 1

\* A formatted number that parses to zero ("0.00" or "-0.00")
IsZeroStr(x) == x.k = "fin" /\ x.mag = 0

\* The metric keys of the cells of a report row of the half-to-half section
RowKeys(tag) ==
    CASE tag = "Average" -> <<"tempAvg", "pressureAvg", "vibrationAvg">>
      [] tag = "Maximum" -> <<"tempMax", "pressureMax", "vibrationMax">>
      [] OTHER -> <<"tempMin", "pressureMin", "vibrationMin">>

\* C4: whenever the denominator of a rate of change is zero (a first-half
\* aggregate of 0, or a chunk whose first reading is 0 for the metric), the
\* reported rate of change is the sentinel N/A, on screen and in the report.
ZeroDenominatorIsNA ==
    /\ view.rendered =>
          /\ \A m \in MetricKeys :
                IsZeroStr(view.half.firstMetrics[m]) => view.half.roc[m] = NA
          /\ \A k \in 1..Len(Table) :
                LET first == Chrono[Table[k].start + 1]
                IN  /\ first.tempF = 0 => Table[k].tempRoC = NA
                    /\ first.pressurePSI = 0 => Table[k].pressureRoC = NA
                    /\ first.vibrationMM = 0 => Table[k].vibrationRoC = NA
    /\ report.exported =>
          LET firstMetrics == calcMetrics(SubSeq(Chrono, 1, NumReadings \div 2))
          IN  \A j \in 1..Len(report.lines) :
                 report.lines[j].tag \in {"Average", "Maximum", "Minimum"} =>
                    \A c \in 1..3 :
                       IsZeroStr(firstMetrics[RowKeys(report.lines[j].tag)[c]])
                          => report.lines[j].cells[c] = NA

\* The report text without the line that carries the generation time
WithoutGenerated(lines) == SelectSeq(lines, LAMBDA l : l.tag # "Generated")

ReportSegmentRows == SelectSeq(report.lines, LAMBDA l : l.tag = "Period row")

\* C6: in one rendering the statistics table lists the chunks most recent
\* first, and so do the report's TIME SEGMENT rows, while each of the three trend
\* charts receives the same chunks oldest first.
TableNewestFirstChartsOldestFirst ==
    /\ (view.rendered /\ view.segments.shown) =>
          LET m == Len(Table)
          IN  /\ \A k \in 1..m : Table[k].chunkIndex = m - k
              /\ view.segments.tempChart = [k \in 1..m |-> TempPoint(Generated[k])]
              /\ view.segments.pressureChart = [k \in 1..m |-> PressurePoint(Generated[k])]
              /\ view.segments.vibrationChart
                    = [k \in 1..m |-> VibrationPoint(Generated[k])]
    /\ (view.rendered /\ report.exported) =>
          ReportSegmentRows = [k \in 1..Len(Table) |-> SegmentLine(Table[k])]

\* Two chunks or more that differ in every chart, rendered and exported
TableNewestFirstChartsOldestFirstWitness ==
    /\ view.rendered
    /\ report.exported
    /\ Len(Table) >= 2
    /\ Len(ReportSegmentRows) = Len(Table)
    /\ TempPoint(Table[1]) # TempPoint(Table[2])
    /\ PressurePoint(Table[1]) # PressurePoint(Table[2])
    /\ VibrationPoint(Table[1]) # VibrationPoint(Table[2])
    /\ view.segments.pressureChart[1] = PressurePoint(Table[Len(Table)])

NewestChunkFirstAndLabelledLast ==
    (view.rendered /\ NumReadings > 0) =>
        /\ Table[1].start <= NumReadings - 1
        /\ NumReadings - 1 < Table[1].end
        /\ Table[1].label = LastLabel(ChunkConfig(timeRange).label)
        /\ (NumReadings = 60 /\ timeRange = 1) =>
              /\ Len(Table) = 4
              /\ \A k \in 1..4 : Table[k].count = 15
              /\ Table[1].start = 45
              /\ Table[1].end = 60
              /\ Table[1].label = LastLabel("15min")

NewestChunkFirstAndLabelledLastWitness ==
    /\ view.rendered
    /\ NumReadings = 60
    /\ timeRange = 1
    /\ Len(Table) = 4

\* C9: under selector 1 every chunk but the most recent one is labelled
\* "{minsAgoStart}-{minsAgoEnd} mins ago" with minsAgoEnd = (numChunks - i - 1) * 15
\* and minsAgoStart = (numChunks - i) * 15; for 60 readings the four labels are
\* pairwise distinct and the oldest names the 45 to 60 minute span.
OneHourLabelsInMinutes ==
    (view.rendered /\ timeRange = 1 /\ NumReadings > 0) =>
        LET m == Len(Table)
        IN  /\ \A k \in 2..m :
                  Table[k].label
                     = MinsAgoLabel((m - Table[k].chunkIndex) * 15,
                                    (m - Table[k].chunkIndex - 1) * 15)
            /\ NumReadings = 60 =>
                  /\ \A j, k \in 1..m : j # k => Table[j].label # Table[k].label
                  /\ Table[m].label = MinsAgoLabel(60, 45)

\* The chunk size and label unit the lookup table gives a selector
ExpectedChunkSize ==
    IF timeRange = 1 THEN 15
    ELSE IF timeRange \in {4, 8} THEN 60
    ELSE IF timeRange = 12 THEN 120
    ELSE IF timeRange = 24 THEN 180
    ELSE 60

ExpectedUnit ==
    IF timeRange = 1 THEN "15min"
    ELSE IF timeRange \in {4, 8} THEN "1hr"
    ELSE IF timeRange = 12 THEN "2hr"
    ELSE IF timeRange = 24 THEN "3hr"
    ELSE "1hr"

\* The number of chunks of a full window of a button
ExpectedFullWindowChunks ==
    IF timeRange \in {1, 4} THEN 4
    ELSE IF timeRange = 12 THEN 6
    ELSE 8

\* C10: the chunk configuration is 1 -> (15, "15min"), 4 -> (60, "1hr"),
\* 8 -> (60, "1hr"), 12 -> (120, "2hr"), 24 -> (180, "3hr") and (60, "1hr") for
\* every other selector; a full window of hours * 60 readings gives 4, 4, 8, 6
\* and 8 full-size chunks for the selectors 1, 4, 8, 12 and 24.
ChunkConfigIsTotal ==
    (view.rendered /\ NumReadings > 0) =>
        /\ view.segments.timeLabel = ExpectedUnit
        /\ \A k \in 1..Len(Table) :
              /\ Table[k].timeLabel = ExpectedUnit
              /\ Table[k].count <= ExpectedChunkSize
              /\ k > 1 => Table[k].count = ExpectedChunkSize
        /\ IsCeilOf(Len(Table), NumReadings, ExpectedChunkSize)
        /\ (timeRange \in SupportedRanges /\ NumReadings = timeRange * 60) =>
              /\ Len(Table) = ExpectedFullWindowChunks
              /\ \A k \in 1..Len(Table) : Table[k].count = ExpectedChunkSize

\* The full 24-hour window
ChunkConfigIsTotalWitness ==
    /\ view.rendered
    /\ timeRange = 24
    /\ NumReadings = 1440
    /\ Len(Table) = 8
    /\ Table[8].count = 180

\* s is (num / den).toFixed(2), den # 0: the sign of the quotient and the
\* hundredths nearest to its magnitude
IsToFixed2Of(s, num, den) ==
    /\ s.k = "fin"
    /\ s.neg = ((num < 0 /\ den > 0) \/ (num > 0 /\ den < 0))
    /\ 2 * Abs(den) * s.mag - Abs(den) <= 200 * Abs(num)
    /\ 200 * Abs(num) < 2 * Abs(den) * s.mag + Abs(den)

\* roc is the value JavaScript gives ((last - first) / first * 100).toFixed(2)
IsRoCOf(roc, first, last) ==
    IF first # 0 THEN IsToFixed2Of(roc, (last - first) * 100, first)
    ELSE IF last = 0 THEN roc = NaNStr
    ELSE roc = Inf(last < 0)

\* The values an interior reading is replaced by
InteriorProbes == {0, 97}

\* The rates of change of the values with the interior position j replaced
RoCsWithInteriorReplaced(values, j) ==
    {ChunkRoC([values EXCEPT ![j] = v]) : v \in InteriorProbes}

\* The interior positions that are probed in a chunk of count readings
InteriorPositions(count) == {j \in {2, count \div 2, count - 1} : 1 < j /\ j < count}

\* C11: a chunk's rate of change is "0.00" for every metric when the chunk has
\* fewer than 2 readings; otherwise it is (last - first) / first * 100 of the
\* chunk's first and last reading, and replacing an interior reading of the
\* chunk leaves it as it is.
ChunkRoCFromFirstAndLast ==
    view.rendered =>
        \A k \in 1..Len(Table) :
           LET c == Table[k]
               first == Chrono[c.start + 1]
               last == Chrono[c.end]
           IN  /\ c.count < 2 =>
                     /\ c.tempRoC = ZeroStr
                     /\ c.pressureRoC = ZeroStr
                     /\ c.vibrationRoC = ZeroStr
               /\ c.count >= 2 =>
                     /\ IsRoCOf(c.tempRoC, first.tempF, last.tempF)
                     /\ IsRoCOf(c.pressureRoC, first.pressurePSI, last.pressurePSI)
                     /\ IsRoCOf(c.vibrationRoC, first.vibrationMM, last.vibrationMM)
               /\ Local(SubSeq(Chrono, c.start + 1, c.end), LAMBDA chunkReadings :
                     \A j \in InteriorPositions(c.count) :
                        /\ RoCsWithInteriorReplaced(TempValues(chunkReadings), j)
                              = {c.tempRoC}
                        /\ RoCsWithInteriorReplaced(PressureValues(chunkReadings), j)
                              = {c.pressureRoC}
                        /\ RoCsWithInteriorReplaced(VibrationValues(chunkReadings), j)
                              = {c.vibrationRoC})

\* A chunk of one reading next to a full chunk whose temperature rose
ChunkRoCFromFirstAndLastWitness ==
    /\ view.rendered
    /\ Len(Table) >= 2
    /\ Table[1].count = 1
    /\ Table[2].count >= 3
    /\ Table[2].tempRoC.k = "fin"
    /\ Table[2].tempRoC.mag > 0

\* The detail of the expanded row has its query result
Loaded == expandedAssetId # Null /\ ~isLoading

\* rs is ordered newest first: strictly decreasing timestamps
NewestFirst(rs) == \A k \in 1..(Len(rs) - 1) : rs[k].timestamp > rs[k + 1].timestamp

\* A step that does not fetch: the same row stays expanded with the same
\* time range, loaded before and after
NoRefetch ==
    /\ Loaded
    /\ Loaded'
    /\ expandedAssetId' = expandedAssetId
    /\ timeRange' = timeRange

\* C12: a render, an export or a click on the current time-range button leaves
\* the fetched readings array element for element as it was; the array is newest
\* first whenever it is loaded; and the chronological readings of a render are
\* a reversed copy, as long as the array, ending with the array's first element
\* and starting with its last.
FetchedReadingsNeverMutated ==
    /\ [](Loaded => NewestFirst(readings))
    /\ []((Loaded /\ view.rendered) =>
            /\ view.chronological.length = Len(readings)
            /\ Len(readings) > 0 =>
                  /\ view.chronological.ends[2] = readings[1]
                  /\ view.chronological.ends[1] = readings[Len(readings)])
    /\ [][NoRefetch => readings' = readings]_vars

\* Rendered and exported twice after a change of the time range
FetchedReadingsNeverMutatedWitness ==
    /\ Loaded
    /\ view.rendered
    /\ report.exported
    /\ prevReport.exported
    /\ timeRange = 4
    /\ report.assetId = expandedAssetId
    /\ Len(readings) >= 2
    /\ view.chronological.ends[2] = readings[1]

\* The stored readings of an asset, as the response carries them
StoredReadingsOf(assetId) ==
    {ReadingJson(sensorReadings[k]) :
        k \in {j \in 1..Len(sensorReadings) : sensorReadings[j].assetId = assetId}}

HasLine(lines, tag, cells) ==
    \E j \in 1..Len(lines) : lines[j].tag = tag /\ lines[j].cells = cells

\* C14: a report exported for an asset that has a stored prediction carries the
\* risk level and failure probability of the asset's latest prediction, in the
\* asset information block and in the ML PREDICTION section, and its model
\* version.
ReportCarriesLatestPrediction ==
    (report.exported /\ LatestPredictions(predictions, report.assetId) # {}) =>
        \E latest \in LatestPredictions(predictions, report.assetId) :
           /\ HasLine(report.lines, "ML PREDICTION", <<>>)
           /\ HasLine(report.lines, "Risk Level", <<latest.riskLevel>>)
           /\ HasLine(report.lines, "Failure Probability",
                      <<ProbabilityPercent(latest.probability)>>)
           /\ latest.modelVersion # "" =>
                 HasLine(report.lines, "Model Version", <<latest.modelVersion>>)

\* The section headers of the report
SectionHeaders ==
    {"ASSET INFORMATION", "CURRENT SENSOR STATUS",
     "TREND ANALYSIS: FIRST HALF vs SECOND HALF", "TIME SEGMENT TREND ANALYSIS",
     "ML PREDICTION"}

\* The section headers of a report, in the order they appear
SectionsOf(lines) ==
    LET headers == SelectSeq(lines, LAMBDA l : l.tag \in SectionHeaders /\ l.cells = <<>>)
    IN  [k \in 1..Len(headers) |-> headers[k].tag]

\* The sections a report has to have, in order
ExpectedSections(hasReadings, hasChunks, hasPrediction) ==
    << "ASSET INFORMATION" >>
    \o (IF hasReadings THEN << "CURRENT SENSOR STATUS" >> ELSE << >>)
    \o << "TREND ANALYSIS: FIRST HALF vs SECOND HALF" >>
    \o (IF hasChunks THEN << "TIME SEGMENT TREND ANALYSIS" >> ELSE << >>)
    \o (IF hasPrediction THEN << "ML PREDICTION" >> ELSE << >>)

\* A prediction as the export handler would be given one
SamplePrediction ==
    [present |-> TRUE, riskLevel |-> "yellow", probability |-> 4200, modelVersion |-> ""]

\* C15: the section headers of the exported report are, in this order, ASSET
\* INFORMATION, CURRENT SENSOR STATUS (exactly when there is a reading), TREND
\* ANALYSIS, TIME SEGMENT TREND ANALYSIS (exactly when the chunk list is not
\* empty) and ML PREDICTION (exactly when the handler has a prediction); the
\* same holds of the report the handler writes when given a prediction.
ReportSectionsInFixedOrder ==
    report.exported =>
        /\ SectionsOf(report.lines)
              = ExpectedSections(NumReadings > 0, Len(Table) > 0, prediction.present)
        /\ SectionsOf(ExportDetailedReport(asset, readings, SamplePrediction,
                                           timeRange, clock).lines)
              = ExpectedSections(NumReadings > 0, Len(Table) > 0, TRUE)

\* A report with readings and chunks was exported: four sections
ReportSectionsInFixedOrderWitness ==
    /\ report.exported
    /\ NumReadings > 0
    /\ Len(SectionsOf(report.lines)) = 4
    /\ SectionsOf(report.lines)[2] = "CURRENT SENSOR STATUS"
    /\ SectionsOf(report.lines)[4] = "TIME SEGMENT TREND ANALYSIS"

\* C18: timeRange starts at 24 and is one of the buttons' values in every
\* state; collapsing a row, expanding another one and sorting leave it as it is, and
\* it changes only by a click on a time-range button of the loaded detail, to
\* that button's value.
TimeRangePersists ==
    /\ timeRange = 24
    /\ [](timeRange \in SupportedRanges)
    /\ [][ /\ (\/ expandedAssetId' # expandedAssetId
               \/ sortField' # sortField
               \/ sortDirection' # sortDirection) => timeRange' = timeRange
           /\ timeRange' # timeRange => (Loaded /\ timeRange' \in SupportedRanges) ]_vars

\* A row collapsed after the range was set to one hour and the table sorted by name
TimeRangePersistsWitness ==
    /\ timeRange = 1
    /\ expandedAssetId = Null
    /\ sortField = "name"
    /\ sortDirection = "desc"

\* --- the endpoints

\* C16: every stored prediction created by POST /api/predict satisfies the
\* risk mapping (green iff probability < 0.3, yellow iff 0.3 <= probability
\* < 0.7, red iff probability >= 0.7) and carries the recommendation text of
\* its risk level
StoredPredictionsFollowRiskMapping ==
    \A k \in 1..Len(predictions) :
        LET p == predictions[k]
        IN  /\ p.riskLevel \in {"green", "yellow", "red"}
            /\ (p.riskLevel = "green") <=> (p.probability < 3000)
            /\ (p.riskLevel = "yellow") <=> (3000 <= p.probability /\ p.probability < 7000)
            /\ (p.riskLevel = "red") <=> (p.probability >= 7000)
            /\ (p.riskLevel = "green") =>
                  p.recommendation =
                     "Continue normal operation. Asset operating within normal parameters."
            /\ (p.riskLevel = "yellow") =>
                  p.recommendation =
                     "Schedule inspection within 7 days. Elevated risk detected."
            /\ (p.riskLevel = "red") =>
                  p.recommendation =
                     "Immediate attention required. High failure risk detected."

\* Predictions were stored with a probability on each threshold
StoredPredictionsFollowRiskMappingWitness ==
    /\ response.endpoint = "predict"
    /\ response.status = "success"
    /\ \E j, k \in 1..Len(predictions) :
          /\ predictions[j].probability = 3000
          /\ predictions[j].riskLevel = "yellow"
          /\ predictions[k].probability = 7000
          /\ predictions[k].riskLevel = "red"

\* C17: a predict request for an uploaded file, made before any training, is
\* rejected with MODEL_NOT_TRAINED (HTTP 400), and no prediction is stored
\* before a training request has succeeded
PredictBeforeTrainRejected ==
    /\ (/\ response.endpoint = "predict"
        /\ trainedFiles = {}
        /\ ~(response.status = "error" /\ response.code = "FILE_NOT_FOUND"))
       => (/\ response.status = "error"
           /\ response.http = 400
           /\ response.code = "MODEL_NOT_TRAINED")
    /\ (trainedFiles = {}) => (predictions = <<>>)

\* C19: after a successful upload the uploaded_files row of the request has
\* rowCount equal to the number of data rows and assetCount equal to the
\* assets_detected of the response
UploadRecordMatchesResponse ==
    (response.endpoint = "upload" /\ response.status = "success")
    => LET file == getUploadedFileById(uploadedFiles, response.file_id)
       IN  /\ Len(file) = 1
           /\ file[1].rowCount = response.validation_summary.total_rows
           /\ file[1].assetCount = response.assets_detected

\* The issues stored for a file
IssuesOfFile(table, fileId) == SelectSeq(table, LAMBDA i : i.fileId = fileId)

\* C20: a successful upload has valid_rows + invalid_rows = total_rows, its
\* rows_ingested is the number of sensor readings the request inserted, and
\* the number of data_quality_issues rows of its file_id is invalid_rows:
\* every data row became one reading or one issue
UploadAccountsForEveryRow ==
    [][(Len(uploadedFiles') = Len(uploadedFiles) + 1)
       => LET r == response'
              file == uploadedFiles'[Len(uploadedFiles')]
              inserted == Len(sensorReadings') - Len(sensorReadings)
              recorded == Len(dataQualityIssues') - Len(dataQualityIssues)
          IN  /\ r.endpoint = "upload"
              /\ r.status = "success"
              /\ r.file_id = file.id
              /\ r.validation_summary.total_rows = file.rowCount
              /\ r.validation_summary.valid_rows + r.validation_summary.invalid_rows
                    = r.validation_summary.total_rows
              /\ r.rows_ingested = r.validation_summary.valid_rows
              /\ SubSeq(sensorReadings', 1, Len(sensorReadings)) = sensorReadings
              /\ inserted = r.rows_ingested
              /\ SubSeq(dataQualityIssues', 1, Len(dataQualityIssues)) = dataQualityIssues
              /\ recorded = r.validation_summary.invalid_rows
              /\ Len(IssuesOfFile(dataQualityIssues', r.file_id))
                    = r.validation_summary.invalid_rows
              /\ Len(IssuesOfFile(dataQualityIssues, r.file_id)) = 0
              /\ inserted + recorded = file.rowCount
      ]_vars

\* An upload with a valid and an invalid data row succeeded
UploadAccountsForEveryRowWitness ==
    /\ response.endpoint = "upload"
    /\ response.status = "success"
    /\ response.validation_summary.valid_rows = 1
    /\ response.validation_summary.invalid_rows = 1
    /\ Len(sensorReadings) = 1
    /\ Len(dataQualityIssues) = 1
    /\ dataQualityIssues[1].fileId = response.file_id

\* C21: an upload rejected by validation (no file, a name not ending in .csv,
\* fewer than two rows, a required column missing) answers HTTP 400 with
\* VALIDATION_ERROR and leaves every table as it was; an upload that is
\* accepted has none of the four defects
RejectedUploadLeavesDatabase ==
    [][(response'.endpoint = "upload")
       => IF response'.status = "error"
          THEN /\ response'.http = 400
               /\ response'.code = "VALIDATION_ERROR"
               /\ dbVars' = dbVars
          ELSE LET file == uploadedFiles'[Len(uploadedFiles')]
               IN  /\ Len(uploadedFiles') = Len(uploadedFiles) + 1
                   /\ file.id = response'.file_id
                   /\ file.fileName[Len(file.fileName)] = ".csv"
                   /\ file.rowCount >= 1
                   /\ \A k \in 1..Len(requiredColumns) :
                         \E j \in 1..Len(response'.columns) :
                            response'.columns[j] = requiredColumns[k]
      ]_vars

\* An upload was rejected after another one had been accepted and had stored
\* a reading and an issue
RejectedUploadLeavesDatabaseWitness ==
    /\ response.endpoint = "upload"
    /\ response.status = "error"
    /\ Len(uploadedFiles) = 1
    /\ Len(sensorReadings) = 1
    /\ Len(dataQualityIssues) = 1
    /\ Len(assets) = 1

\* The file_id a train or predict request was made with, as its response
\* shows it
RequestedFileId(r) == IF r.status = "success" THEN r.file_id ELSE r.message[2]

\* C23: /api/train and /api/predict called with a file_id that matches no
\* uploaded file answer HTTP 404 with FILE_NOT_FOUND and leave every table as
\* it was; no prediction is created
UnknownFileIsNotFound ==
    [][(/\ response'.endpoint \in {"train", "predict"}
        /\ \A k \in 1..Len(uploadedFiles) :
              uploadedFiles[k].id # RequestedFileId(response'))
       => (/\ response'.status = "error"
           /\ response'.http = 404
           /\ response'.code = "FILE_NOT_FOUND"
           /\ dbVars' = dbVars
           /\ predictions' = predictions)
      ]_vars

\* A prediction was asked for a file id never issued, with a file uploaded and
\* an asset stored
UnknownFileIsNotFoundWitness ==
    /\ response.endpoint = "predict"
    /\ response.status = "error"
    /\ response.code = "FILE_NOT_FOUND"
    /\ Len(uploadedFiles) >= 1
    /\ Len(assets) >= 1
    /\ \A k \in 1..Len(uploadedFiles) : uploadedFiles[k].id # RequestedFileId(response)
    /\ predictions = <<>>

\* --- the tables

\* Every stored reading and prediction references a stored asset, and no two
\* asset rows have the same id
ReferencesResolve ==
    /\ \A k \in 1..Len(sensorReadings) :
          \E a \in 1..Len(assets) : assets[a].id = sensorReadings[k].assetId
    /\ \A k \in 1..Len(predictions) :
          \E a \in 1..Len(assets) : assets[a].id = predictions[k].assetId
    /\ \A a, b \in 1..Len(assets) : assets[a].id = assets[b].id => a = b

\* C22: after any sequence of uploads, predictions and deleteAsset calls every
\* stored reading and prediction references an existing asset; an upload
\* leaves the existing asset rows as they are and adds rows only for ids that
\* had none
ReferentialIntegrity ==
    /\ []ReferencesResolve
    /\ [][(Len(uploadedFiles') = Len(uploadedFiles) + 1)
          => /\ Len(assets') >= Len(assets)
             /\ SubSeq(assets', 1, Len(assets)) = assets
             /\ \A n \in (Len(assets) + 1)..Len(assets') :
                   /\ \A a \in 1..Len(assets) : assets[a].id # assets'[n].id
                   /\ \E k \in (Len(sensorReadings) + 1)..Len(sensorReadings') :
                         sensorReadings'[k].assetId = assets'[n].id
         ]_vars

\* Two valid uploads, of which one found its asset stored, a deleteAsset call
\* in between, and a prediction afterwards
ReferentialIntegrityWitness ==
    /\ Len(uploadedFiles) = 2
    /\ dataQualityIssues = <<>>
    /\ Len(assets) = 1
    /\ Len(sensorReadings) = 1
    /\ Len(predictions) = 1
    /\ response.endpoint = "predict"

\* C24: deleteAsset(id) leaves no asset row, reading or prediction with that
\* id, and the rows of every other asset as they were
DeleteAssetRemovesAllOfOneAsset ==
    [][\A id \in DeletableAssetIds :
          DeleteAsset(id)
          => /\ \A k \in 1..Len(assets') : assets'[k].id # id
             /\ \A k \in 1..Len(sensorReadings') : sensorReadings'[k].assetId # id
             /\ \A k \in 1..Len(predictions') : predictions'[k].assetId # id
             /\ assets' = SelectSeq(assets, LAMBDA a : a.id # id)
             /\ sensorReadings' = SelectSeq(sensorReadings, LAMBDA r : r.assetId # id)
             /\ predictions' = SelectSeq(predictions, LAMBDA p : p.assetId # id)
      ]_vars

\* One of two assets was deleted after both had a reading and a prediction:
\* the other one's rows are there
DeleteAssetRemovesAllOfOneAssetWitness ==
    /\ response.endpoint = "predict"
    /\ response.status = "success"
    /\ Len(response.predictions) = 2
    /\ Len(assets) = 1
    /\ Len(predictions) = 1
    /\ Len(sensorReadings) = 1
    /\ predictions[1].assetId = assets[1].id
    /\ sensorReadings[1].assetId = assets[1].id

\* --- GET /api/assets

\* The asset ids of a list of response items
IdsOf(items) == [k \in 1..Len(items) |-> items[k].id]

\* The pages 1 .. n of a query, one after another
RECURSIVE PagesThrough(_, _, _)
PagesThrough(q, tieBreak, n) ==
    IF n = 0 THEN <<>>
    ELSE PagesThrough(q, tieBreak, n - 1)
         \o GetAssets(assets, predictions, [q EXCEPT !.page = <<n>>], tieBreak).assets

\* C25: the risk-level filter is applied before pagination.  For every valid
\* query: total is the number of assets (of the type asked for) whose reported
\* risk level is the one asked for, totalPages is ceil(total / limit), page p
\* holds the filtered assets at positions (p-1)*limit .. p*limit - 1, the
\* pages 1 .. totalPages together are the filtered assets, each once, and an
\* asset without prediction is reported green with failureProbability 0
FilterBeforePagination ==
    \A q \in ListQueries, tieBreak \in {"first", "last"} :
        QueryIsValid(q) =>
           LET r == GetAssets(assets, predictions, q, tieBreak)
               page == r.pagination.page
               limit == r.pagination.limit
               total == r.pagination.total
               totalPages == r.pagination.totalPages
               \* every asset of the type, unfiltered, on one page
               everyone == GetAssets(assets, predictions,
                                     [type |-> q.type, riskLevel |-> Null,
                                      page |-> <<>>, limit |-> <<>>], tieBreak).assets
               wanted == SelectSeq(everyone,
                                   LAMBDA a : q.riskLevel = Null \/ a.riskLevel = q.riskLevel)
           IN  /\ page = (IF q.page = <<>> THEN 1 ELSE q.page[1])
               /\ limit = (IF q.limit = <<>> THEN 50 ELSE q.limit[1])
               /\ IdsOf(everyone)
                     = IdsOf(SelectSeq(assets, LAMBDA a : q.type = Null \/ a.type = q.type))
               /\ total = Len(wanted)
               /\ (totalPages - 1) * limit < total \/ (total = 0 /\ totalPages = 0)
               /\ total <= totalPages * limit
               /\ r.assets = [k \in 1..(MathMax(0, MathMin(page * limit, total)
                                                    - (page - 1) * limit)) |->
                                 wanted[(page - 1) * limit + k]]
               /\ PagesThrough(q, tieBreak, totalPages) = wanted
               /\ \A k \in 1..Len(everyone) :
                     (\A p \in 1..Len(predictions) :
                         predictions[p].assetId # everyone[k].id)
                     => (/\ everyone[k].riskLevel = "green"
                         /\ everyone[k].failureProbability = 0)

\* The second page of the red assets was asked for, one per page, with two red
\* assets stored after one that is not red
FilterBeforePaginationWitness ==
    /\ response.endpoint = "assets"
    /\ response.status = "success"
    /\ response.pagination.page = 2
    /\ response.pagination.limit = 1
    /\ response.pagination.total = 2
    /\ response.pagination.totalPages = 2
    /\ Len(response.assets) = 1
    /\ response.assets[1].riskLevel = "red"
    /\ response.assets[1].id = "MOTOR-7"
    /\ \A p \in 1..Len(predictions) : predictions[p].assetId # "COMP-204"

\* --- the asset table

\* The rows of the table that are drawn expanded:
\* isExpanded = expandedAssetId === asset.id
ExpandedRows == {k \in 1..Len(assets) : assets[k].id = expandedAssetId}

\* C26: no row is expanded initially and at most one is in every state;
\* toggleAsset(a) collapses a when a is the expanded row and otherwise makes a
\* the expanded row, and nothing else changes which row is expanded
AtMostOneRowExpanded ==
    /\ expandedAssetId = Null
    /\ [](Cardinality(ExpandedRows) <= 1)
    /\ [][/\ \A a \in TableAssetIds :
                ToggleAsset(a) =>
                   /\ (expandedAssetId = a) => (expandedAssetId' = Null /\ ExpandedRows' = {})
                   /\ (expandedAssetId # a) =>
                         /\ expandedAssetId' = a
                         /\ \A k \in ExpandedRows' : assets[k].id = a
                         /\ Cardinality(ExpandedRows') = 1
          /\ (expandedAssetId' # expandedAssetId) => \E a \in TableAssetIds : ToggleAsset(a)
         ]_vars

\* The second row of two is the expanded one, and its detail is loaded
AtMostOneRowExpandedWitness ==
    /\ expandedAssetId = "COMP-204"
    /\ ExpandedRows = {2}
    /\ Len(assets) = 2
    /\ ~isLoading
    /\ asset.id = "COMP-204"

\* The value an asset is sorted by: the position of its text in the locale
\* order, the rank of its risk level (red above yellow above green), or its
\* probability
SortKey(a, field) ==
    CASE field = "id" -> IndexOf(IdsInLocaleOrder, a.id)
      [] field = "name" -> IndexOf(NamesInLocaleOrder, a.name)
      [] field = "location" -> IndexOf(LocationsInLocaleOrder, a.location)
      [] field = "riskLevel" ->
            (IF a.riskLevel = "red" THEN 3 ELSE IF a.riskLevel = "yellow" THEN 2 ELSE 1)
      [] OTHER -> a.failureProbability

\* The displayed list for the fetched one: a permutation of it, in the order
\* of the sort field and direction
DisplayedInOrder(fetched) ==
    LET shown == sortedAssets(fetched, sortField, sortDirection)
    IN  /\ Len(shown) = Len(fetched)
        /\ \A k \in 1..Len(fetched) :
              Cardinality({j \in 1..Len(shown) : shown[j] = fetched[k]})
                 = Cardinality({j \in 1..Len(fetched) : fetched[j] = fetched[k]})
        /\ \A k \in 1..(Len(shown) - 1) :
              IF sortDirection = "asc"
              THEN SortKey(shown[k], sortField) <= SortKey(shown[k + 1], sortField)
              ELSE SortKey(shown[k], sortField) >= SortKey(shown[k + 1], sortField)

\* C27: the sort state starts as (riskLevel, desc); handleSort(f) on the
\* current field keeps it and flips the direction, on another field sets the
\* field to f and the direction to asc; the displayed list is a permutation
\* of the fetched assets in the order of the field and direction, risk being
\* ordered red > yellow > green
SortStateAndOrder ==
    /\ sortField = "riskLevel" /\ sortDirection = "desc"
    /\ [](/\ sortField \in SortFields
          /\ sortDirection \in {"asc", "desc"}
          /\ \A tieBreak \in {"first", "last"} :
                DisplayedInOrder(UseAssetsData(assets, predictions, tieBreak)))
    /\ [][\A f \in SortFields :
             HandleSort(f) =>
                /\ sortField' = f
                /\ (sortField = f) =>
                      sortDirection' = (IF sortDirection = "asc" THEN "desc" ELSE "asc")
                /\ (sortField # f) => sortDirection' = "asc"
         ]_vars

\* Sorted by probability, descending, after two clicks on that column, with a
\* green, a yellow and a red asset fetched in that order
SortStateAndOrderWitness ==
    /\ sortField = "failureProbability"
    /\ sortDirection = "desc"
    /\ LET fetched == UseAssetsData(assets, predictions, "first")
           shown == sortedAssets(fetched, sortField, sortDirection)
       IN  /\ <<fetched[1].riskLevel, fetched[2].riskLevel, fetched[3].riskLevel>>
                 = <<"green", "yellow", "red">>
           /\ IdsOf(shown) = <<fetched[3].id, fetched[2].id, fetched[1].id>>

\* --- uploads handled at the same time

====
